---- MODULE Spec2Model ----
(***************************************************************************)
(* The almanac range-mapping engine of src/src/almanac.rs: RangeMap (one   *)
(* rule), AlmanacMap (one sorted rule table, with map and map_ranges) and  *)
(* Almanac (the chain of seven tables), with the part-2 computation of     *)
(* src/src/days/day5.rs.                                                   *)
(*                                                                         *)
(* Arithmetic is on naturals far below the usize width, except in the      *)
(* specification SpecWidth, which scales usize down to UsizeBits bits and  *)
(* follows every addition of RangeMap::map and RangeMap::range_in.         *)
(***************************************************************************)
EXTENDS Integers, Sequences, FiniteSets

VARIABLES
    values,     \* AlmanacMap.values: the rule table, sorted by source_start
    range,      \* map_ranges: the argument `range`
    pos,        \* map_ranges: the cursor `pos`
    result,     \* map_ranges: the vector `result`
    value,      \* AlmanacMap::map: the argument `value`
    mapped,     \* AlmanacMap::map: the value returned
    almanac,    \* the parsed Almanac: seeds, seed_ranges and the seven tables
    seed,       \* Almanac::seed_to_location: the argument `seed`
    location,   \* Almanac::seed_to_location: the value returned
    solution,   \* SeedSolver::solve: the Result returned
    given,      \* AlmanacMap::new: the argument `values`, in the given order
    input,      \* Almanac::from_str: the text `s`, a sequence of lines
    parsed,     \* Almanac::from_str: the Result returned
    overflow,   \* whether an addition of the call left the width of usize
    data_line,  \* RangeMap::from_str: the argument `s`, one line of tokens
    data_rule,  \* RangeMap::from_str: the Result returned
    cards,      \* CardSet::new: the argument `cards`
    card_set,   \* CardSet::new: the CardSet `card_set`
    card_index, \* CardSet::resolve: the loop variable `i`
    total,      \* CardSet::total_instances: the value returned
    hand_cards, \* Hand::new: the argument `cards`
    hand_bid,   \* Hand::new: the argument `bid`
    hand,       \* Hand::new: the Result returned
    wild,       \* Hand::jokers_wild: the Hand returned
    game,       \* GameBag::minimum_for, is_game_possible: the argument `game`
    bag,        \* GameBag::minimum_for: the GameBag returned
    self_bag,   \* GameBag::is_game_possible: the bag `self`
    possible,   \* GameBag::is_game_possible: the bool returned
    record,     \* RaceRecord: the record `self`
    winning,    \* RaceRecord::get_winning_hold_times: the Range returned
    ways,       \* RaceRecord::num_ways_to_beat_record: the value returned
    pc          \* where the call stands

vars == <<values, range, pos, result, value, mapped,
          almanac, seed, location, solution,
          given, input, parsed, overflow,
          data_line, data_rule,
          cards, card_set, card_index, total,
          hand_cards, hand_bid, hand, wild,
          game, bag, self_bag, possible,
          record, winning, ways, pc>>

tableVars == <<values, range, pos, result, value, mapped>>
chainVars == <<almanac, seed, location, solution>>
inputVars == <<given, input, parsed, overflow>>
cardVars == <<cards, card_set, card_index, total>>
handVars == <<hand_cards, hand_bid, hand, wild>>
bagVars == <<game, bag, self_bag, possible>>
raceVars == <<record, winning, ways>>
puzzleVars == <<cardVars, handVars, bagVars, raceVars>>
exceptCards == <<handVars, bagVars, raceVars>>
exceptHands == <<cardVars, bagVars, raceVars>>
exceptBags == <<cardVars, handVars, raceVars>>
exceptRaces == <<cardVars, handVars, bagVars>>
callVars == <<data_line, data_rule, puzzleVars>>

\* No function of cardVars has been called.
CardsIdle ==
    /\ cards = <<>>
    /\ card_set = <<>>
    /\ card_index = 0
    /\ total = 0

\* No function of handVars has been called.
HandsIdle ==
    /\ hand_cards = <<>>
    /\ hand_bid = 0
    /\ hand = <<>>
    /\ wild = <<>>

\* No function of bagVars has been called.
BagsIdle ==
    /\ game = <<>>
    /\ bag = <<>>
    /\ self_bag = <<>>
    /\ possible = FALSE

\* No function of raceVars has been called.
RacesIdle ==
    /\ record = <<>>
    /\ winning = <<>>
    /\ ways = 0

\* No function of puzzleVars has been called.
PuzzlesIdle ==
    /\ CardsIdle
    /\ HandsIdle
    /\ BagsIdle
    /\ RacesIdle

ExceptCardsIdle ==
    /\ HandsIdle
    /\ BagsIdle
    /\ RacesIdle

ExceptHandsIdle ==
    /\ CardsIdle
    /\ BagsIdle
    /\ RacesIdle

ExceptBagsIdle ==
    /\ CardsIdle
    /\ HandsIdle
    /\ RacesIdle

ExceptRacesIdle ==
    /\ CardsIdle
    /\ HandsIdle
    /\ BagsIdle

\* No function of callVars has been called.
CallsIdle ==
    /\ data_line = <<>>
    /\ data_rule = <<>>
    /\ PuzzlesIdle

----------------------------------------------------------------------------
(* Bounds of the model.                                                    *)

\* destination_start of a rule is in 0..MaxDest
MaxDest == 1
\* source_start of a rule is in 0..MaxSrc
MaxSrc == 2
\* range_length of a rule is in 0..MaxLen (0: a zero-length rule)
MaxLen == 2
\* a table holds at most MaxRules rules
MaxRules == 2
\* interval bounds and mapped values are in 0..MaxPos
MaxPos == 3
\* a seed range starts in 0..MaxSeed
MaxSeed == 1
\* and has a length in 0..MaxSeedLen
MaxSeedLen == 1
\* the seed line holds at most MaxSeedPairs pairs
MaxSeedPairs == 1

\* Tokens after "seeds: " on the seed line of a text.
MaxSeedTokens == 4

\* The result vector is cut off at this length: a table of n rules of positive
\* length yields at most 2n+1 intervals, so only a loop that does not advance
\* reaches it.
MaxResult == 2 * MaxRules + 2

----------------------------------------------------------------------------
(* std::ops::Range<usize> and Option<usize>.                               *)

Range(a, b) == [start |-> a, end |-> b]

RangeContains(r, v) == r.start <= v /\ v < r.end

None == <<>>
Some(x) == <<x>>

\* The minimum that is always its second argument.
minSecond(a, b) == b

min(a, b) == IF a <= b THEN a ELSE b

----------------------------------------------------------------------------
(* RangeMap                                                                *)

RangeMap(d, s, l) ==
    [destination_start |-> d, source_start |-> s, range_length |-> l]

\* RangeMap::map with the end of the source interval taken as inside it.
RangeMapMapInclusiveEnd(range_map, v) ==
    IF v < range_map.source_start THEN None
    ELSE IF v > range_map.source_start + range_map.range_length THEN None
    ELSE Some(range_map.destination_start + (v - range_map.source_start))

\* RangeMap::map without the subtraction of source_start.
RangeMapMapNoOffset(range_map, v) ==
    IF v < range_map.source_start THEN None
    ELSE IF v >= range_map.source_start + range_map.range_length THEN None
    ELSE Some(range_map.destination_start + v)

RangeMapMap(range_map, v) ==
    IF v < range_map.source_start THEN None
    ELSE IF v >= range_map.source_start + range_map.range_length THEN None
    ELSE Some(range_map.destination_start + (v - range_map.source_start))

\* The source interval without the length of the rule.
RangeInWithoutLength(range_map) ==
    Range(range_map.source_start, range_map.source_start)

RangeIn(range_map) ==
    Range(range_map.source_start,
          range_map.source_start + range_map.range_length)

----------------------------------------------------------------------------
(* AlmanacMap                                                              *)

\* The insertion that puts the rule in front, whatever its key.
InsertByKeyInFront(sorted, range_map) == <<range_map>> \o sorted

\* Vec::sort_by_key is a stable sort: insert each rule after the rules whose
\* key is less than or equal to its own.
RECURSIVE InsertByKey(_, _)
InsertByKey(sorted, range_map) ==
    IF sorted = <<>> THEN <<range_map>>
    ELSE IF Head(sorted).source_start <= range_map.source_start
         THEN <<Head(sorted)>> \o InsertByKey(Tail(sorted), range_map)
         ELSE <<range_map>> \o sorted

RECURSIVE SortBySourceStart(_)
SortBySourceStart(vals) ==
    IF vals = <<>> THEN <<>>
    ELSE InsertByKey(SortBySourceStart(SubSeq(vals, 1, Len(vals) - 1)),
                     vals[Len(vals)])

\* The constructor that stores the rules in the order given.
AlmanacMapNewUnsorted(vals) == vals

AlmanacMapNew(vals) == SortBySourceStart(vals)

\* The scan that returns the mapping of the last rule that maps the value.
MapScanLastMatch(vals, i, v) ==
    LET hits == { j \in i..Len(vals) : RangeMapMap(vals[j], v) # None }
    IN  IF hits = {} THEN v
        ELSE RangeMapMap(vals[CHOOSE j \in hits : \A k \in hits : k <= j], v)[1]

\* for range_map in &self.values { if let Some(m) = range_map.map(value) ... }
RECURSIVE MapScan(_, _, _)
MapScan(vals, i, v) ==
    IF i > Len(vals) THEN v
    ELSE IF RangeMapMap(vals[i], v) # None THEN RangeMapMap(vals[i], v)[1]
    ELSE MapScan(vals, i + 1, v)

AlmanacMapMap(vals, v) == MapScan(vals, 1, v)

\* The predicate of find without the test of range_in.
FindPredicateStartOnly(range_map, v) ==
    range_map.source_start >= v

\* The predicate of the find in find_next_range_map.
FindPredicate(range_map, v) ==
    range_map.source_start >= v \/ RangeContains(RangeIn(range_map), v)

\* Iterator::find: the index of the first rule that satisfies the predicate,
\* 0 for None.
RECURSIVE FindScan(_, _, _)
FindScan(vals, i, v) ==
    IF i > Len(vals) THEN 0
    ELSE IF FindPredicate(vals[i], v) THEN i
    ELSE FindScan(vals, i + 1, v)

FindNextRangeMap(vals, v) == FindScan(vals, 1, v)

\* The loop condition with <= for <.
LoopCondInclusive(p, r) == p <= r.end

\* while pos < range.end
LoopCond(p, r) == p < r.end

\* map_ranges as a function of the table and the interval: the loop of the
\* actions LoopContained, LoopGap, LoopNoRule and LoopExit below, run to its
\* end (or to the cut-off of the result vector).
RECURSIVE MapRangesLoop(_, _, _, _)
MapRangesLoop(vals, r, p, res) ==
    IF ~LoopCond(p, r) \/ Len(res) >= MaxResult THEN res
    ELSE IF FindNextRangeMap(vals, p) # 0
    THEN LET range_map == vals[FindNextRangeMap(vals, p)]
             range_in == RangeIn(range_map)
         IN  IF RangeContains(range_in, p)
             THEN LET end_pos == min(range_in.end, r.end)
                      start_range == RangeMapMap(range_map, p)[1]
                      end_range == start_range + (end_pos - p)
                  IN  MapRangesLoop(vals, r, end_pos,
                                    Append(res, Range(start_range, end_range)))
             ELSE MapRangesLoop(vals, r, range_in.start,
                                Append(res, Range(p, range_in.start)))
    ELSE Append(res, Range(p, r.end))

MapRanges(vals, r) == MapRangesLoop(vals, r, r.start, <<>>)

----------------------------------------------------------------------------
(* Almanac                                                                 *)

\* The ranges with the length of a pair taken for the end of its range.
GetSeedRangesStartToLength(seeds) ==
    [ i \in 1..(Len(seeds) \div 2) |-> Range(seeds[2 * i - 1], seeds[2 * i]) ]

\* get_seed_ranges, for a list of even length: chunks_exact(2), each chunk
\* (start, length) giving start..start+length.
RECURSIVE GetSeedRanges(_)
GetSeedRanges(seeds) ==
    IF Len(seeds) < 2 THEN <<>>
    ELSE <<Range(seeds[1], seeds[1] + seeds[2])>>
         \o GetSeedRanges(SubSeq(seeds, 3, Len(seeds)))

SeedToSoil(a, v) == AlmanacMapMap(a.seed_to_soil_map, v)
SoilToFertilizer(a, v) == AlmanacMapMap(a.soil_to_fertilizer_map, v)
FertilizerToWater(a, v) == AlmanacMapMap(a.fertilizer_to_water_map, v)
WaterToLight(a, v) == AlmanacMapMap(a.water_to_light_map, v)
LightToTemperature(a, v) == AlmanacMapMap(a.light_to_temperature_map, v)
TemperatureToHumidity(a, v) == AlmanacMapMap(a.temperature_to_humidity_map, v)
HumidityToLocation(a, v) == AlmanacMapMap(a.humidity_to_location_map, v)

SeedToSoilRanges(a, r) == MapRanges(a.seed_to_soil_map, r)
SoilToFertilizerRanges(a, r) == MapRanges(a.soil_to_fertilizer_map, r)
FertilizerToWaterRanges(a, r) == MapRanges(a.fertilizer_to_water_map, r)
WaterToLightRanges(a, r) == MapRanges(a.water_to_light_map, r)
LightToTemperatureRanges(a, r) == MapRanges(a.light_to_temperature_map, r)
TemperatureToHumidityRanges(a, r) == MapRanges(a.temperature_to_humidity_map, r)
HumidityToLocationRanges(a, r) == MapRanges(a.humidity_to_location_map, r)

\* seed_to_location with the water and light stages in the wrong order.
SeedToLocationSwapped(a, s) ==
    LET soil == SeedToSoil(a, s)
        fertilizer == SoilToFertilizer(a, soil)
        light == WaterToLight(a, fertilizer)
        water == FertilizerToWater(a, light)
        temperature == LightToTemperature(a, water)
        humidity == TemperatureToHumidity(a, temperature)
    IN  HumidityToLocation(a, humidity)

SeedToLocation(a, s) ==
    LET soil == SeedToSoil(a, s)
        fertilizer == SoilToFertilizer(a, soil)
        water == FertilizerToWater(a, fertilizer)
        light == WaterToLight(a, water)
        temperature == LightToTemperature(a, light)
        humidity == TemperatureToHumidity(a, temperature)
    IN  HumidityToLocation(a, humidity)

\* The collect that keeps the vector of the first element only.
ConcatFirstOnly(vecs) ==
    IF vecs = <<>> THEN <<>> ELSE Head(vecs)

\* Iterator::flat_map(..).collect(): the concatenation, in order, of the
\* vectors the closure returns.
RECURSIVE Concat(_)
Concat(vecs) ==
    IF vecs = <<>> THEN <<>> ELSE Head(vecs) \o Concat(Tail(vecs))

SeedRangeToLocationRanges(a, seed_range) ==
    LET soil_ranges == SeedToSoilRanges(a, seed_range)
        fertilizer_ranges ==
            Concat([i \in 1..Len(soil_ranges) |->
                        SoilToFertilizerRanges(a, soil_ranges[i])])
        water_ranges ==
            Concat([i \in 1..Len(fertilizer_ranges) |->
                        FertilizerToWaterRanges(a, fertilizer_ranges[i])])
        light_ranges ==
            Concat([i \in 1..Len(water_ranges) |->
                        WaterToLightRanges(a, water_ranges[i])])
        temperature_ranges ==
            Concat([i \in 1..Len(light_ranges) |->
                        LightToTemperatureRanges(a, light_ranges[i])])
        humidity_ranges ==
            Concat([i \in 1..Len(temperature_ranges) |->
                        TemperatureToHumidityRanges(a, temperature_ranges[i])])
        location_ranges ==
            Concat([i \in 1..Len(humidity_ranges) |->
                        HumidityToLocationRanges(a, humidity_ranges[i])])
    IN  location_ranges

\* self.seeds.iter().map(|seed| self.seed_to_location(*seed)).collect()
GetSeedLocations(a) ==
    [i \in 1..Len(a.seeds) |-> SeedToLocation(a, a.seeds[i])]

GetSeedLocationRanges(a) ==
    Concat([i \in 1..Len(a.seed_ranges) |->
                SeedRangeToLocationRanges(a, a.seed_ranges[i])])

----------------------------------------------------------------------------
(* SeedSolver::solve, after the parse                                      *)

\* Iterator::min: None for an empty sequence.
IterMin(xs) ==
    IF xs = <<>> THEN None
    ELSE Some(CHOOSE m \in { xs[i] : i \in 1..Len(xs) } :
                  \A i \in 1..Len(xs) : m <= xs[i])

Ok(part1, part2) == [tag |-> "Ok", part1 |-> part1, part2 |-> part2]
Err(e) == [tag |-> "Err", error |-> e]

Solve(a) ==
    LET lowest_location_number == IterMin(GetSeedLocations(a))
        location_ranges == GetSeedLocationRanges(a)
        lowest_location_via_ranges ==
            IterMin([i \in 1..Len(location_ranges) |-> location_ranges[i].start])
    IN  IF lowest_location_number = None THEN Err("NoSeeds")
        ELSE IF lowest_location_via_ranges = None THEN Err("NoSeeds")
        ELSE Ok(lowest_location_number[1], lowest_location_via_ranges[1])

----------------------------------------------------------------------------
(* Inputs                                                                  *)

Rules ==
    { RangeMap(d, s, l) : d \in 0..MaxDest, s \in 0..MaxSrc, l \in 0..MaxLen }

RECURSIVE SeqsUpTo(_, _)
SeqsUpTo(S, n) ==
    IF n = 0 THEN { <<>> }
    ELSE LET shorter == SeqsUpTo(S, n - 1)
         IN  shorter \cup { Append(q, x) : q \in shorter, x \in S }

RuleLists == SeqsUpTo(Rules, MaxRules)

Ranges == { Range(a, b) : a \in 0..MaxPos, b \in 0..MaxPos }

\* The tables of the stages of a chain: no rule, or one of two rules that do
\* not commute (3 -> 2 -> 0).
ChainTables ==
    { <<>>, <<RangeMap(0, 2, 1)>>, <<RangeMap(2, 3, 1)>> }

\* The seed line: up to MaxSeedPairs pairs (start, length).
SeedPairs == { <<a, n>> : a \in 0..MaxSeed, n \in 0..MaxSeedLen }

SeedLists == { Concat(ps) : ps \in SeqsUpTo(SeedPairs, MaxSeedPairs) }

NoAlmanac == <<>>
NoSolution == <<>>
NoResult == <<>>

----------------------------------------------------------------------------
(* One table: AlmanacMap::new, then one call of map or of map_ranges       *)

Init ==
    /\ \E lines \in RuleLists : values = AlmanacMapNew(lines)
    /\ range = Range(0, 0)
    /\ pos = 0
    /\ result = <<>>
    /\ value = 0
    /\ mapped = 0
    /\ almanac = NoAlmanac
    /\ seed = 0
    /\ location = 0
    /\ solution = NoSolution
    /\ given = <<>>
    /\ input = <<>>
    /\ parsed = NoResult
    /\ overflow = FALSE
    /\ CallsIdle
    /\ pc = "idle"

\* AlmanacMap::map(value)
Map(v) ==
    /\ pc = "idle"
    /\ value' = v
    /\ mapped' = AlmanacMapMap(values, v)
    /\ pc' = "mapped"
    /\ UNCHANGED <<values, range, pos, result, chainVars, inputVars, callVars>>

\* map_ranges(range): result = Vec::new(), pos = range.start
MapRangesCall(r) ==
    /\ pc = "idle"
    /\ range' = r
    /\ pos' = r.start
    /\ result' = <<>>
    /\ pc' = "loop"
    /\ UNCHANGED <<values, value, mapped, chainVars, inputVars, callVars>>

\* An iteration with a rule found whose range_in contains pos.
LoopContained ==
    /\ pc = "loop"
    /\ LoopCond(pos, range)
    /\ Len(result) < MaxResult
    /\ FindNextRangeMap(values, pos) # 0
    /\ LET range_map == values[FindNextRangeMap(values, pos)]
           range_in == RangeIn(range_map)
       IN  /\ RangeContains(range_in, pos)
           /\ LET end_pos == min(range_in.end, range.end)
                  start_range == RangeMapMap(range_map, pos)[1]
                  end_range == start_range + (end_pos - pos)
              IN  /\ pos' = end_pos
                  /\ result' = Append(result, Range(start_range, end_range))
    /\ UNCHANGED <<values, range, value, mapped, chainVars, inputVars, callVars, pc>>

\* The gap iteration with the identity piece begun at range.start, not pos.
LoopGapFromRangeStart ==
    /\ pc = "loop"
    /\ LoopCond(pos, range)
    /\ Len(result) < MaxResult
    /\ FindNextRangeMap(values, pos) # 0
    /\ LET range_map == values[FindNextRangeMap(values, pos)]
           range_in == RangeIn(range_map)
       IN  /\ ~RangeContains(range_in, pos)
           /\ pos' = range_in.start
           /\ result' = Append(result, Range(range.start, range_in.start))
    /\ UNCHANGED <<values, range, value, mapped, chainVars, inputVars, callVars, pc>>

\* An iteration with a rule found whose range_in does not contain pos.
LoopGap ==
    /\ pc = "loop"
    /\ LoopCond(pos, range)
    /\ Len(result) < MaxResult
    /\ FindNextRangeMap(values, pos) # 0
    /\ LET range_map == values[FindNextRangeMap(values, pos)]
           range_in == RangeIn(range_map)
       IN  /\ ~RangeContains(range_in, pos)
           /\ pos' = range_in.start
           /\ result' = Append(result, Range(pos, range_in.start))
    /\ UNCHANGED <<values, range, value, mapped, chainVars, inputVars, callVars, pc>>

\* The iteration with no rule found that breaks without pushing the tail.
LoopNoRuleNoPush ==
    /\ pc = "loop"
    /\ LoopCond(pos, range)
    /\ Len(result) < MaxResult
    /\ FindNextRangeMap(values, pos) = 0
    /\ pc' = "done"
    /\ UNCHANGED <<values, range, pos, result, value, mapped, chainVars, inputVars, callVars>>

\* An iteration with no rule found: push pos..range.end and break.
LoopNoRule ==
    /\ pc = "loop"
    /\ LoopCond(pos, range)
    /\ Len(result) < MaxResult
    /\ FindNextRangeMap(values, pos) = 0
    /\ result' = Append(result, Range(pos, range.end))
    /\ pc' = "done"
    /\ UNCHANGED <<values, range, pos, value, mapped, chainVars, inputVars, callVars>>

\* The loop condition fails: map_ranges returns result.
LoopExit ==
    /\ pc = "loop"
    /\ ~LoopCond(pos, range)
    /\ pc' = "done"
    /\ UNCHANGED <<values, range, pos, result, value, mapped, chainVars, inputVars, callVars>>

Next ==
    \/ \E v \in 0..MaxPos : Map(v)
    \/ \E r \in Ranges : MapRangesCall(r)
    \/ LoopContained
    \/ LoopGap
    \/ LoopNoRule
    \/ LoopExit

Spec == Init /\ [][Next]_vars

----------------------------------------------------------------------------
(* The seed-to-soil table of the example almanac, then one call of map or  *)
(* of map_ranges around its rules                                          *)

ExampleSeedToSoil == << RangeMap(50, 98, 2), RangeMap(52, 50, 48) >>

ExampleValues == 45..105

ExampleRanges == { Range(a, b) : a \in ExampleValues, b \in ExampleValues }

ExampleInit ==
    /\ values = AlmanacMapNew(ExampleSeedToSoil)
    /\ range = Range(0, 0)
    /\ pos = 0
    /\ result = <<>>
    /\ value = 0
    /\ mapped = 0
    /\ almanac = NoAlmanac
    /\ seed = 0
    /\ location = 0
    /\ solution = NoSolution
    /\ given = <<>>
    /\ input = <<>>
    /\ parsed = NoResult
    /\ overflow = FALSE
    /\ CallsIdle
    /\ pc = "idle"

ExampleNext ==
    \/ \E v \in ExampleValues : Map(v)
    \/ \E r \in ExampleRanges : MapRangesCall(r)
    \/ LoopContained
    \/ LoopGap
    \/ LoopNoRule
    \/ LoopExit

SpecExample == ExampleInit /\ [][ExampleNext]_vars

----------------------------------------------------------------------------
(* The constructor: AlmanacMap::new on the rules in the order given        *)

NewInit ==
    /\ \E lines \in RuleLists : given = lines
    /\ values = <<>>
    /\ range = Range(0, 0)
    /\ pos = 0
    /\ result = <<>>
    /\ value = 0
    /\ mapped = 0
    /\ almanac = NoAlmanac
    /\ seed = 0
    /\ location = 0
    /\ solution = NoSolution
    /\ input = <<>>
    /\ parsed = NoResult
    /\ overflow = FALSE
    /\ CallsIdle
    /\ pc = "given"

\* AlmanacMap::new(values)
NewCall ==
    /\ pc = "given"
    /\ values' = AlmanacMapNew(given)
    /\ pc' = "constructed"
    /\ UNCHANGED <<range, pos, result, value, mapped, chainVars, inputVars, callVars>>

\* AlmanacMap::map(value) on the table constructed
MapConstructed(v) ==
    /\ pc = "constructed"
    /\ value' = v
    /\ mapped' = AlmanacMapMap(values, v)
    /\ pc' = "looked_up"
    /\ UNCHANGED <<values, range, pos, result, chainVars, inputVars, callVars>>

NewNext ==
    \/ NewCall
    \/ \E v \in 0..MaxPos : MapConstructed(v)

SpecNew == NewInit /\ [][NewNext]_vars

----------------------------------------------------------------------------
(* The chain: Almanac::from_str has succeeded, then one call of            *)
(* seed_to_location (SpecChain) or of SeedSolver::solve (SpecSolve)        *)

\* The Almanac that from_str builds from a seed line and seven blocks.
ParsedAlmanac(seeds, t1, t2, t3, t4, t5, t6, t7) ==
    [ seeds |-> seeds,
      seed_ranges |-> GetSeedRanges(seeds),
      seed_to_soil_map |-> AlmanacMapNew(t1),
      soil_to_fertilizer_map |-> AlmanacMapNew(t2),
      fertilizer_to_water_map |-> AlmanacMapNew(t3),
      water_to_light_map |-> AlmanacMapNew(t4),
      light_to_temperature_map |-> AlmanacMapNew(t5),
      temperature_to_humidity_map |-> AlmanacMapNew(t6),
      humidity_to_location_map |-> AlmanacMapNew(t7) ]

\* The almanacs parsed from the seed lines of a set and the seven tables.
ParsedFrom(seedLists) ==
    /\ \E seeds \in seedLists :
       \E t1 \in ChainTables, t2 \in ChainTables, t3 \in ChainTables,
          t4 \in ChainTables, t5 \in ChainTables, t6 \in ChainTables,
          t7 \in ChainTables :
          almanac = ParsedAlmanac(seeds, t1, t2, t3, t4, t5, t6, t7)
    /\ seed = 0
    /\ location = 0
    /\ solution = NoSolution
    /\ values = <<>>
    /\ range = Range(0, 0)
    /\ pos = 0
    /\ result = <<>>
    /\ value = 0
    /\ mapped = 0
    /\ given = <<>>
    /\ input = <<>>
    /\ parsed = NoResult
    /\ overflow = FALSE
    /\ CallsIdle
    /\ pc = "parsed"

\* seed_to_location reads the seven tables only: the seed line is left empty.
ChainInit == ParsedFrom({ <<>> })

\* Almanac::seed_to_location(seed)
SeedToLocationCall(s) ==
    /\ pc = "parsed"
    /\ seed' = s
    /\ location' = SeedToLocation(almanac, s)
    /\ pc' = "located"
    /\ UNCHANGED <<almanac, solution, tableVars, inputVars, callVars>>

\* The seed intervals of a call: bounds up to one past MaxPos, so that an
\* interval can hold every source value of ChainTables.
ChainRanges == { Range(a, b) : a \in 0..MaxPos, b \in 0..(MaxPos + 1) }

\* Almanac::seed_range_to_location_ranges(seed_range); range and result
\* hold the argument and the vector returned.
SeedRangeToLocationRangesCall(r) ==
    /\ pc = "parsed"
    /\ range' = r
    /\ result' = SeedRangeToLocationRanges(almanac, r)
    /\ pc' = "fanned_out"
    /\ UNCHANGED <<values, pos, value, mapped, chainVars, inputVars, callVars>>

ChainNext ==
    \/ \E s \in 0..MaxPos : SeedToLocationCall(s)
    \/ \E r \in ChainRanges : SeedRangeToLocationRangesCall(r)

SpecChain == ChainInit /\ [][ChainNext]_vars

SolveInit == ParsedFrom(SeedLists)

\* SeedSolver::solve, from the parsed almanac on
SolveCall ==
    /\ pc = "parsed"
    /\ solution' = Solve(almanac)
    /\ pc' = "solved"
    /\ UNCHANGED <<almanac, seed, location, tableVars, inputVars, callVars>>

SolveNext == SolveCall

SpecSolve == SolveInit /\ [][SolveNext]_vars

----------------------------------------------------------------------------
(* The width of usize: one rule, then one call of RangeMap::map or of      *)
(* RangeMap::range_in, in a debug build (an overflowing addition panics)   *)
(* or in a release build (it wraps)                                        *)

\* usize::BITS, scaled down.
UsizeBits == 3

UsizeMax == 2 ^ UsizeBits - 1

Usize == 0..UsizeMax

Builds == { "debug", "release" }

\* a + b on usize: the wrapped sum, and whether the sum left the width.
UsizeAdd(a, b) ==
    [ sum |-> (a + b) % (2 ^ UsizeBits), overflow |-> a + b > UsizeMax ]

\* RangeMap::map with the additions on usize: the Option the wrapped sums
\* give, and whether an addition that was evaluated overflowed.
RangeMapMapUsize(range_map, v) ==
    IF v < range_map.source_start
    THEN [ value |-> None, overflow |-> FALSE ]
    ELSE LET end == UsizeAdd(range_map.source_start, range_map.range_length)
         IN  IF v >= end.sum
             THEN [ value |-> None, overflow |-> end.overflow ]
             ELSE LET out == UsizeAdd(range_map.destination_start,
                                      v - range_map.source_start)
                  IN  [ value |-> Some(out.sum),
                        overflow |-> end.overflow \/ out.overflow ]

\* RangeMap::range_in with the addition on usize.
RangeInUsize(range_map) ==
    LET end == UsizeAdd(range_map.source_start, range_map.range_length)
    IN  [ value |-> Range(range_map.source_start, end.sum),
          overflow |-> end.overflow ]

WidthInit ==
    /\ \E d \in Usize, s \in Usize, l \in Usize : values = <<RangeMap(d, s, l)>>
    /\ range = Range(0, 0)
    /\ pos = 0
    /\ result = <<>>
    /\ value = 0
    /\ mapped = None
    /\ almanac = NoAlmanac
    /\ seed = 0
    /\ location = 0
    /\ solution = NoSolution
    /\ given = <<>>
    /\ input = <<>>
    /\ parsed = NoResult
    /\ overflow = FALSE
    /\ CallsIdle
    /\ pc = "idle"

\* RangeMap::map(value) on the rule. An overflowing addition panics in a
\* debug build and wraps in a release build.
RangeMapMapCall(v, build) ==
    /\ pc = "idle"
    /\ value' = v
    /\ LET call == RangeMapMapUsize(values[1], v)
       IN  /\ overflow' = call.overflow
           /\ IF call.overflow /\ build = "debug"
              THEN mapped' = mapped /\ pc' = "panicked"
              ELSE mapped' = call.value /\ pc' = "mapped"
    /\ UNCHANGED <<values, range, pos, result, chainVars, given, input, parsed, callVars>>

\* RangeMap::range_in() on the rule.
RangeInCall(build) ==
    /\ pc = "idle"
    /\ LET call == RangeInUsize(values[1])
       IN  /\ overflow' = call.overflow
           /\ IF call.overflow /\ build = "debug"
              THEN range' = range /\ pc' = "panicked"
              ELSE range' = call.value /\ pc' = "ranged"
    /\ UNCHANGED <<values, pos, result, value, mapped, chainVars,
                   given, input, parsed, callVars>>

WidthNext ==
    \/ \E v \in Usize, build \in Builds : RangeMapMapCall(v, build)
    \/ \E build \in Builds : RangeInCall(build)

SpecWidth == WidthInit /\ [][WidthNext]_vars

----------------------------------------------------------------------------
(* Parsing: Almanac::from_str on a text                                    *)
(*                                                                         *)
(* A text is the sequence of its lines (str::lines) and a line is the      *)
(* sequence of its tokens (split_whitespace), written with one space       *)
(* between two tokens and none around them: the empty line is <<>>. The    *)
(* token "seeds:" stands for the prefix "seeds: " of the seed line.        *)

\* The decimal tokens of the model; the token at index n + 1 denotes n.
NumeralTokens == << "0", "1", "2", "3" >>

\* str::parse::<usize>
ParseUsize(token) ==
    IF \E n \in 1..Len(NumeralTokens) : NumeralTokens[n] = token
    THEN Some((CHOOSE n \in 1..Len(NumeralTokens) : NumeralTokens[n] = token) - 1)
    ELSE None

ParseOk(x) == [ tag |-> "Ok", value |-> x ]

\* An AlmanacParseError: the variant and its String argument, as the line
\* of tokens it holds (<<>> for a variant without argument).
ParseErr(variant, arg) == [ tag |-> "Err", error |-> variant, arg |-> arg ]

\* tokens.map(|n| n.parse::<usize>().map_err(|_| variant(n))).collect():
\* the numbers, or the error of the first token that is not a number.
RECURSIVE ParseTokens(_, _)
ParseTokens(tokens, variant) ==
    IF tokens = <<>> THEN ParseOk(<<>>)
    ELSE LET n == ParseUsize(Head(tokens))
         IN  IF n = None THEN ParseErr(variant, <<Head(tokens)>>)
             ELSE LET rest == ParseTokens(Tail(tokens), variant)
                  IN  IF rest.tag = "Err" THEN rest
                      ELSE ParseOk(<<n[1]>> \o rest.value)

\* The parse that tests the number of tokens before it reads them.
RangeMapFromStrCountFirst(line) ==
    IF Len(line) # 3 THEN ParseErr("InvalidRange", line)
    ELSE LET parsed_values == ParseTokens(line, "InvalidValueInRange")
         IN  IF parsed_values.tag = "Err" THEN parsed_values
             ELSE ParseOk(RangeMap(parsed_values.value[1], parsed_values.value[2],
                                   parsed_values.value[3]))

\* RangeMap::from_str
RangeMapFromStr(line) ==
    LET parsed_values == ParseTokens(line, "InvalidValueInRange")
    IN  IF parsed_values.tag = "Err" THEN parsed_values
        ELSE IF Len(parsed_values.value) # 3 THEN ParseErr("InvalidRange", line)
        ELSE ParseOk(RangeMap(parsed_values.value[1], parsed_values.value[2],
                              parsed_values.value[3]))

\* The names of the seven stages, in the order from_str reads them.
StagePrefixes ==
    << "seed-to-soil", "soil-to-fertilizer", "fertilizer-to-water",
       "water-to-light", "light-to-temperature", "temperature-to-humidity",
       "humidity-to-location" >>

\* Any line of the form "<name> map:" passes for the header.
HeaderMatchesAnyName(header_line, map_prefix) ==
    Len(header_line) = 2 /\ header_line[2] = "map:"

\* header_line.trim() == format!("{} map:", map_prefix)
HeaderMatches(header_line, map_prefix) ==
    header_line = << map_prefix, "map:" >>

\* The loop `for line in lines` of from_lines, from line i on: the rules
\* pushed and the index of the line the next reader starts at.
RECURSIVE ReadRangeMaps(_, _)
ReadRangeMaps(s, i) ==
    IF i > Len(s) THEN [ tag |-> "Ok", value |-> <<>>, next |-> i ]
    ELSE IF s[i] = <<>> THEN [ tag |-> "Ok", value |-> <<>>, next |-> i + 1 ]
    ELSE LET range_map == RangeMapFromStr(s[i])
         IN  IF range_map.tag = "Err" THEN range_map
             ELSE LET rest == ReadRangeMaps(s, i + 1)
                  IN  IF rest.tag = "Err" THEN rest
                      ELSE [ tag |-> "Ok",
                             value |-> <<range_map.value>> \o rest.value,
                             next |-> rest.next ]

\* AlmanacMap::from_lines(lines, map_prefix), with the iterator at line i.
FromLines(s, i, map_prefix) ==
    IF i > Len(s) THEN ParseErr("MissingHeaderLine", <<map_prefix>>)
    ELSE IF ~HeaderMatches(s[i], map_prefix)
         THEN ParseErr("MissingHeaderLine", <<map_prefix>>)
    ELSE LET read == ReadRangeMaps(s, i + 1)
         IN  IF read.tag = "Err" THEN read
             ELSE [ tag |-> "Ok", value |-> AlmanacMapNew(read.value),
                    next |-> read.next ]

\* The seven calls of from_lines, from stage k on with the iterator at line
\* i: the tables of the stages k..7, or the first error.
RECURSIVE FromLinesInOrder(_, _, _)
FromLinesInOrder(s, i, k) ==
    IF k > Len(StagePrefixes) THEN ParseOk(<<>>)
    ELSE LET almanac_map == FromLines(s, i, StagePrefixes[k])
         IN  IF almanac_map.tag = "Err" THEN almanac_map
             ELSE LET rest == FromLinesInOrder(s, almanac_map.next, k + 1)
                  IN  IF rest.tag = "Err" THEN rest
                      ELSE ParseOk(<<almanac_map.value>> \o rest.value)

\* Almanac::from_str
FromStr(s) ==
    IF s = <<>> THEN ParseErr("MissingSeeds", <<>>)
    ELSE IF s[1] = <<>> \/ s[1][1] # "seeds:" THEN ParseErr("MissingSeeds", <<>>)
    ELSE LET seeds == ParseTokens(Tail(s[1]), "InvalidSeed")
         IN  IF seeds.tag = "Err" THEN seeds
             ELSE IF Len(seeds.value) % 2 # 0
                  THEN ParseErr("InsufficientSeedNumbers", <<>>)
             ELSE IF Len(s) < 2 THEN ParseErr("MissingSeedToSoilMap", <<>>)
             ELSE IF s[2] # <<>> THEN ParseErr("MissingSeedToSoilMap", <<>>)
             ELSE LET maps == FromLinesInOrder(s, 3, 1)
                  IN  IF maps.tag = "Err" THEN maps
                      ELSE ParseOk(
                             [ seeds |-> seeds.value,
                               seed_ranges |-> GetSeedRanges(seeds.value),
                               seed_to_soil_map |-> maps.value[1],
                               soil_to_fertilizer_map |-> maps.value[2],
                               fertilizer_to_water_map |-> maps.value[3],
                               water_to_light_map |-> maps.value[4],
                               light_to_temperature_map |-> maps.value[5],
                               temperature_to_humidity_map |-> maps.value[6],
                               humidity_to_location_map |-> maps.value[7] ])

\* The texts: a seed line of up to MaxSeedTokens tokens, an empty line and
\* the seven blocks, each a header, one data line and an empty line, with up
\* to two blocks written differently or the text cut before a block; a text
\* ends with its last non-empty line, as a file that ends with one line feed
\* does.
SeedTokens == { "1", "2", "x" }

SeedLines == { <<"seeds:">> \o tokens : tokens \in SeqsUpTo(SeedTokens, MaxSeedTokens) }

BlockKinds == { "good", "misnamed", "absent", "bad_data", "no_data", "end" }

Block(k, kind) ==
    CASE kind = "good" ->
           << <<StagePrefixes[k], "map:">>, <<"2", "1", "1">>, <<>> >>
      [] kind = "misnamed" ->
           << <<StagePrefixes[(k % Len(StagePrefixes)) + 1], "map:">>,
              <<"2", "1", "1">>, <<>> >>
      [] kind = "absent" -> <<>>
      [] kind = "bad_data" ->
           << <<StagePrefixes[k], "map:">>, <<"2", "x", "1">>, <<>> >>
      [] kind = "no_data" ->
           << <<StagePrefixes[k], "map:">>, <<>> >>

RECURSIVE Blocks(_, _, _, _, _)
Blocks(k, j1, kind1, j2, kind2) ==
    LET kind == IF k = j1 THEN kind1 ELSE IF k = j2 THEN kind2 ELSE "good"
    IN  IF k > Len(StagePrefixes) \/ kind = "end" THEN <<>>
        ELSE Block(k, kind) \o Blocks(k + 1, j1, kind1, j2, kind2)

StripFinalBlank(s) ==
    IF s # <<>> /\ s[Len(s)] = <<>> THEN SubSeq(s, 1, Len(s) - 1) ELSE s

Text(seed_line, j1, kind1, j2, kind2) ==
    StripFinalBlank(<< seed_line, <<>> >> \o Blocks(1, j1, kind1, j2, kind2))

ParseInit ==
    /\ \E seed_line \in SeedLines :
       \E j1 \in 1..Len(StagePrefixes), j2 \in 1..Len(StagePrefixes) :
       \E kind1 \in BlockKinds, kind2 \in BlockKinds :
          /\ j1 < j2
          /\ input = Text(seed_line, j1, kind1, j2, kind2)
    /\ parsed = NoResult
    /\ given = <<>>
    /\ overflow = FALSE
    /\ CallsIdle
    /\ values = <<>>
    /\ range = Range(0, 0)
    /\ pos = 0
    /\ result = <<>>
    /\ value = 0
    /\ mapped = 0
    /\ almanac = NoAlmanac
    /\ seed = 0
    /\ location = 0
    /\ solution = NoSolution
    /\ pc = "text"

\* input.parse::<Almanac>()
FromStrCall ==
    /\ pc = "text"
    /\ parsed' = FromStr(input)
    /\ pc' = "returned"
    /\ UNCHANGED <<tableVars, chainVars, given, input, overflow, callVars>>

ParseNext == FromStrCall

SpecParse == ParseInit /\ [][ParseNext]_vars

----------------------------------------------------------------------------
(* One data line: RangeMap::from_str on the line, then Almanac::from_str   *)
(* on a text that holds the line in the block of one stage                 *)

\* Tokens on a data line.
MaxLineTokens == 4

DataTokens == { "1", "2", "3", "x", "y" }

\* The blocks from stage k on, all one header, one data line "2 1 1" and one
\* empty line, with the data line of stage j replaced.
RECURSIVE BlocksWithLine(_, _, _)
BlocksWithLine(k, j, line) ==
    IF k > Len(StagePrefixes) THEN <<>>
    ELSE << <<StagePrefixes[k], "map:">>,
            IF k = j THEN line ELSE <<"2", "1", "1">>,
            <<>> >>
         \o BlocksWithLine(k + 1, j, line)

TextWithLine(j, line) ==
    StripFinalBlank(<< <<"seeds:", "1", "1">>, <<>> >> \o BlocksWithLine(1, j, line))

LineInit ==
    /\ \E line \in SeqsUpTo(DataTokens, MaxLineTokens) :
       \E j \in 1..Len(StagePrefixes) :
          /\ data_line = line
          /\ input = TextWithLine(j, line)
    /\ data_rule = <<>>
    /\ PuzzlesIdle
    /\ parsed = NoResult
    /\ given = <<>>
    /\ overflow = FALSE
    /\ values = <<>>
    /\ range = Range(0, 0)
    /\ pos = 0
    /\ result = <<>>
    /\ value = 0
    /\ mapped = 0
    /\ almanac = NoAlmanac
    /\ seed = 0
    /\ location = 0
    /\ solution = NoSolution
    /\ pc = "line"

\* data_line.parse::<RangeMap>(); the text is parsed next.
RangeMapFromStrCall ==
    /\ pc = "line"
    /\ data_rule' = RangeMapFromStr(data_line)
    /\ pc' = "text"
    /\ UNCHANGED <<tableVars, chainVars, inputVars, data_line, puzzleVars>>

LineNext ==
    \/ RangeMapFromStrCall
    \/ FromStrCall

SpecLine == LineInit /\ [][LineNext]_vars

----------------------------------------------------------------------------
(* Scratch cards (src/src/scratch_cards.rs): CardSet::new on a vector of   *)
(* cards, one iteration of the loop of CardSet::resolve per step, then     *)
(* CardSet::total_instances. The copies are u32, scaled down to U32Bits    *)
(* bits; an overflowing addition panics in a debug build and wraps in a    *)
(* release build                                                           *)

\* u32::BITS, scaled down.
U32Bits == 3

U32Max == 2 ^ U32Bits - 1

\* a + b on u32: the wrapped sum, and whether the sum left the width.
U32Add(a, b) ==
    [ sum |-> (a + b) % (2 ^ U32Bits), overflow |-> a + b > U32Max ]

\* CardSet::new is given at most MaxCards cards
MaxCards == 4
\* a card has at most MaxMatches matching numbers
MaxMatches == 3

\* No function of the almanac has been called.
AlmanacIdle ==
    /\ values = <<>>
    /\ range = Range(0, 0)
    /\ pos = 0
    /\ result = <<>>
    /\ value = 0
    /\ mapped = 0
    /\ almanac = NoAlmanac
    /\ seed = 0
    /\ location = 0
    /\ solution = NoSolution
    /\ given = <<>>
    /\ input = <<>>
    /\ parsed = NoResult
    /\ data_line = <<>>
    /\ data_rule = <<>>

\* A Card with m matching numbers (the numbers themselves play no part in
\* CardSet).
Card(m) == [ matching_numbers |-> [ k \in 1..m |-> k ] ]

\* Card::total_matches
CardTotalMatches(card) == Len(card.matching_numbers)

\* impl From<Card> for CardCopies
CardCopiesFrom(card) == [ card |-> card, copies |-> 0 ]

\* CardCopies::instances: copies + 1 on u32.
Instances(card_copies) == U32Add(card_copies.copies, 1)

\* CardCopies::total_matches
TotalMatches(card_copies) == CardTotalMatches(card_copies.card)

\* CardSet::add_copies on the vector cs (cs[i + 1] is the card of index i):
\* the cards of index index..(index + copies) short of the length get
\* copies_to_add more copies.
AddCopies(cs, index, copies, copies_to_add) ==
    LET touched == { i \in index..(index + copies - 1) : i < Len(cs) }
    IN  [ cards |-> [ k \in 1..Len(cs) |->
                        IF k - 1 \in touched
                        THEN [ cs[k] EXCEPT
                                 !.copies = U32Add(@, copies_to_add).sum ]
                        ELSE cs[k] ],
          overflow |-> \E i \in touched :
                          U32Add(cs[i + 1].copies, copies_to_add).overflow ]

\* CardSet::total_instances over the cards from place k on, added to acc:
\* the sum on u32, and whether an addition overflowed.
RECURSIVE TotalInstancesFrom(_, _, _)
TotalInstancesFrom(cs, k, acc) ==
    IF k > Len(cs) THEN acc
    ELSE LET instances == Instances(cs[k])
             next == U32Add(acc.sum, instances.sum)
         IN  TotalInstancesFrom(cs, k + 1,
                 [ sum |-> next.sum,
                   overflow |-> acc.overflow \/ instances.overflow
                                    \/ next.overflow ])

TotalInstances(cs) == TotalInstancesFrom(cs, 1, [ sum |-> 0, overflow |-> FALSE ])

\* A debug build panics on overflow; a run in which an addition has wrapped
\* is a run of a release build.
Panics(build) == build = "debug" /\ ~overflow

CardsInit ==
    /\ \E matches \in SeqsUpTo(0..MaxMatches, MaxCards) :
          cards = [ k \in 1..Len(matches) |-> Card(matches[k]) ]
    /\ card_set = <<>>
    /\ card_index = 0
    /\ total = 0
    /\ overflow = FALSE
    /\ AlmanacIdle
    /\ ExceptCardsIdle
    /\ pc = "cards"

\* CardSet::new up to the first test of the loop of resolve.
CardSetNew ==
    /\ pc = "cards"
    /\ card_set' = [ cards |-> [ k \in 1..Len(cards) |-> CardCopiesFrom(cards[k]) ],
                     resolved |-> FALSE ]
    /\ card_index' = 0
    /\ pc' = "resolving"
    /\ UNCHANGED <<tableVars, chainVars, inputVars, data_line, data_rule,
                   exceptCards, cards, total>>

\* One iteration of the loop of resolve.
ResolveStep(build) ==
    /\ pc = "resolving"
    /\ card_index < Len(card_set.cards)
    /\ LET matches == TotalMatches(card_set.cards[card_index + 1])
           instances == Instances(card_set.cards[card_index + 1])
           added == AddCopies(card_set.cards, card_index + 1, matches,
                              instances.sum)
       IN  IF (instances.overflow \/ added.overflow) /\ Panics(build)
           THEN /\ overflow' = TRUE
                /\ pc' = "panicked"
                /\ UNCHANGED <<card_set, card_index>>
           ELSE /\ overflow' = (overflow \/ instances.overflow \/ added.overflow)
                /\ card_set' = [ card_set EXCEPT !.cards = added.cards ]
                /\ card_index' = card_index + 1
                /\ pc' = pc
    /\ UNCHANGED <<tableVars, chainVars, given, input, parsed,
                   data_line, data_rule, exceptCards, cards, total>>

\* The end of the loop of resolve, and the return of CardSet::new.
ResolveReturn ==
    /\ pc = "resolving"
    /\ card_index = Len(card_set.cards)
    /\ card_set' = [ card_set EXCEPT !.resolved = TRUE ]
    /\ pc' = "resolved"
    /\ UNCHANGED <<tableVars, chainVars, inputVars, data_line, data_rule,
                   exceptCards, cards, card_index, total>>

\* card_set.total_instances()
TotalInstancesCall(build) ==
    /\ pc = "resolved"
    /\ LET call == TotalInstances(card_set.cards)
       IN  IF call.overflow /\ Panics(build)
           THEN /\ overflow' = TRUE
                /\ pc' = "panicked"
                /\ total' = total
           ELSE /\ overflow' = (overflow \/ call.overflow)
                /\ total' = call.sum
                /\ pc' = "totalled"
    /\ UNCHANGED <<tableVars, chainVars, given, input, parsed,
                   data_line, data_rule, exceptCards, cards, card_set, card_index>>

CardsNext ==
    \/ CardSetNew
    \/ \E build \in Builds : ResolveStep(build)
    \/ ResolveReturn
    \/ \E build \in Builds : TotalInstancesCall(build)

SpecCards == CardsInit /\ [][CardsNext]_vars

----------------------------------------------------------------------------
(* Camel cards (src/src/camel_cards.rs): Hand::new on a vector of cards,   *)
(* then Hand::jokers_wild on the hand, and once more on its result         *)

\* The cards of the model: the joker, five plain cards and the jack.
CamelCards == { "Joker", "Two", "Three", "Four", "Five", "Six", "Jack" }

\* HandType, in the order of its derived Ord.
HandTypes ==
    << "HighCard", "OnePair", "TwoPair", "ThreeOfAKind", "FullHouse",
       "FourOfAKind", "FiveOfAKind" >>

\* The length get_hand_type asks of a hand.
HandLen == 5

\* The bids of the model: that of QQQJA in the example.
Bids == { 483 }

\* cards.iter().collect::<Counter<_>>(): the count of every card present.
Counter(cs) ==
    [ c \in { cs[i] : i \in DOMAIN cs } |->
        Cardinality({ i \in DOMAIN cs : cs[i] = c }) ]

\* counts.values().max()
MaxCount(counts) ==
    IF DOMAIN counts = {} THEN None
    ELSE Some(CHOOSE m \in { counts[c] : c \in DOMAIN counts } :
                  \A c \in DOMAIN counts : counts[c] <= m)

\* counts.values().filter(|&&c| c == 2).count()
Pairs(counts) == Cardinality({ c \in DOMAIN counts : counts[c] = 2 })

\* cards.iter().filter(|&card| card != &Card::Joker)
NoJokers(cs) == SelectSeq(cs, LAMBDA c : c # "Joker")

\* Hand::get_hand_type; "unreachable" is the arm of unreachable!().
GetHandType(cs) ==
    IF Len(cs) < HandLen THEN ParseErr("InsufficientCards", <<Len(cs)>>)
    ELSE IF Len(cs) > HandLen THEN ParseErr("TooManyCards", <<Len(cs)>>)
    ELSE LET counts == Counter(cs)
             max_count == MaxCount(counts)[1]
         IN  CASE max_count = 1 -> ParseOk("HighCard")
               [] max_count = 2 ->
                    IF Pairs(counts) = 2 THEN ParseOk("TwoPair")
                    ELSE ParseOk("OnePair")
               [] max_count = 3 ->
                    IF Pairs(counts) = 1 THEN ParseOk("FullHouse")
                    ELSE ParseOk("ThreeOfAKind")
               [] max_count = 4 -> ParseOk("FourOfAKind")
               [] max_count = 5 -> ParseOk("FiveOfAKind")
               [] OTHER -> ParseOk("unreachable")

\* The first match of get_hand_type_jokers_wild: the type of the cards that
\* are not jokers.
StarterType(counts_no_jokers) ==
    LET max_count == MaxCount(counts_no_jokers)
    IN  IF max_count = None THEN "unwrap_none"
        ELSE CASE max_count[1] = 1 -> "HighCard"
               [] max_count[1] = 2 ->
                    IF Pairs(counts_no_jokers) = 2 THEN "TwoPair" ELSE "OnePair"
               [] max_count[1] = 3 -> "ThreeOfAKind"
               [] max_count[1] = 4 -> "FourOfAKind"
               [] OTHER -> "unreachable"

\* The second match of get_hand_type_jokers_wild.
WithJokers(starter_type, num_jokers) ==
    CASE starter_type = "HighCard" /\ num_jokers = 1 -> "OnePair"
      [] starter_type = "HighCard" /\ num_jokers = 2 -> "ThreeOfAKind"
      [] starter_type = "HighCard" /\ num_jokers = 3 -> "FourOfAKind"
      [] starter_type = "OnePair" /\ num_jokers = 1 -> "ThreeOfAKind"
      [] starter_type = "OnePair" /\ num_jokers = 2 -> "FourOfAKind"
      [] starter_type = "OnePair" /\ num_jokers = 3 -> "FiveOfAKind"
      [] starter_type = "TwoPair" /\ num_jokers = 1 -> "FullHouse"
      [] starter_type = "ThreeOfAKind" /\ num_jokers = 1 -> "FourOfAKind"
      [] starter_type = "ThreeOfAKind" /\ num_jokers = 2 -> "FiveOfAKind"
      [] starter_type = "FourOfAKind" /\ num_jokers = 1 -> "FiveOfAKind"
      [] OTHER -> "unreachable"

\* The hand type that takes no joker for wild.
GetHandTypeJokersPlain(cs) == GetHandType(cs).value

\* Hand::get_hand_type_jokers_wild
GetHandTypeJokersWild(cs) ==
    LET total_count == Counter(cs)
        num_jokers == IF "Joker" \in DOMAIN total_count
                      THEN total_count["Joker"] ELSE 0
    IN  IF num_jokers = 0 THEN GetHandType(cs).value
        ELSE IF num_jokers >= 4 THEN "FiveOfAKind"
        ELSE LET starter_type == StarterType(Counter(NoJokers(cs)))
             IN  IF starter_type \in { "unwrap_none", "unreachable" }
                 THEN starter_type
                 ELSE WithJokers(starter_type, num_jokers)

\* Hand::new
HandNew(cs, bid) ==
    LET hand_type == GetHandType(cs)
    IN  IF hand_type.tag = "Err" THEN hand_type
        ELSE ParseOk([ cards |-> cs, hand_type |-> hand_type.value,
                       bid |-> bid, jokers_wild |-> FALSE ])

\* Hand::jokers_wild
JokersWild(self) ==
    IF self.jokers_wild THEN self
    ELSE LET wild_cards == [ i \in DOMAIN self.cards |->
                               IF self.cards[i] = "Jack" THEN "Joker"
                               ELSE self.cards[i] ]
         IN  [ cards |-> wild_cards,
               hand_type |-> GetHandTypeJokersWild(wild_cards),
               bid |-> self.bid,
               jokers_wild |-> TRUE ]

\* The vectors of HandLen cards, and one too short and one too long.
HandsInit ==
    /\ \/ hand_cards \in [ 1..HandLen -> CamelCards ]
       \/ hand_cards \in { [ i \in 1..n |-> "Two" ] : n \in { HandLen - 1, HandLen + 1 } }
    /\ hand_bid \in Bids
    /\ hand = <<>>
    /\ wild = <<>>
    /\ overflow = FALSE
    /\ AlmanacIdle
    /\ ExceptHandsIdle
    /\ pc = "cards"

\* Hand::new(cards, bid)
HandNewCall ==
    /\ pc = "cards"
    /\ hand' = HandNew(hand_cards, hand_bid)
    /\ pc' = IF hand'.tag = "Ok" THEN "hand" ELSE "rejected"
    /\ UNCHANGED <<tableVars, chainVars, inputVars, data_line, data_rule,
                   exceptHands, hand_cards, hand_bid, wild>>

\* hand.jokers_wild(), on the hand of Hand::new and then on its own result.
JokersWildCall ==
    /\ pc \in { "hand", "wild" }
    /\ LET self == IF pc = "hand" THEN hand.value ELSE wild
           returned == JokersWild(self)
       IN  IF returned.hand_type \in { "unwrap_none", "unreachable" }
           THEN /\ pc' = "panicked"
                /\ wild' = wild
           ELSE /\ pc' = IF pc = "hand" THEN "wild" ELSE "wild_again"
                /\ wild' = returned
    /\ UNCHANGED <<tableVars, chainVars, inputVars, data_line, data_rule,
                   exceptHands, hand_cards, hand_bid, hand>>

HandsNext ==
    \/ HandNewCall
    \/ JokersWildCall

SpecHands == HandsInit /\ [][HandsNext]_vars

----------------------------------------------------------------------------
(* Snow island (src/src/snow_island.rs): GameBag::minimum_for on a game,   *)
(* then is_game_possible of any bag on the game                            *)

\* the counts of a grab and of a bag are in 0..MaxCubes
MaxCubes == 1
\* a game has at most MaxGrabs grabs
MaxGrabs == 2

GrabResult(blue, red, green) == [ blue |-> blue, red |-> red, green |-> green ]

GameBagNew(red, green, blue) == [ red |-> red, green |-> green, blue |-> blue ]

\* GameBag::empty
GameBagEmpty == GameBagNew(0, 0, 0)

\* std::cmp::max
max(a, b) == IF b >= a THEN b ELSE a

\* The bag of the counts of the grab alone.
IntoBagOfResult(self, grab) == GameBagNew(grab.red, grab.green, grab.blue)

\* GameBag::into_bag_satisfying_result
IntoBagSatisfyingResult(self, grab) ==
    [ red |-> max(self.red, grab.red),
      green |-> max(self.green, grab.green),
      blue |-> max(self.blue, grab.blue) ]

\* results.iter().fold(acc, |bag, result| bag.into_bag_satisfying_result(result))
RECURSIVE FoldResults(_, _)
FoldResults(acc, results) ==
    IF results = <<>> THEN acc
    ELSE FoldResults(IntoBagSatisfyingResult(acc, Head(results)), Tail(results))

\* GameBag::minimum_for
MinimumFor(g) == FoldResults(GameBagEmpty, g.results)

\* GameBag::is_outcome_possible
IsOutcomePossible(self, outcome) ==
    self.blue >= outcome.blue /\ self.red >= outcome.red /\ self.green >= outcome.green

\* The loop of is_game_possible from the outcome of place k on.
RECURSIVE IsGamePossibleFrom(_, _, _)
IsGamePossibleFrom(self, results, k) ==
    IF k > Len(results) THEN TRUE
    ELSE IF ~IsOutcomePossible(self, results[k]) THEN FALSE
    ELSE IsGamePossibleFrom(self, results, k + 1)

\* GameBag::is_game_possible
IsGamePossible(self, g) == IsGamePossibleFrom(self, g.results, 1)

GrabResults ==
    { GrabResult(b, r, g) : b \in 0..MaxCubes, r \in 0..MaxCubes, g \in 0..MaxCubes }

GameBags ==
    { GameBagNew(r, g, b) : r \in 0..MaxCubes, g \in 0..MaxCubes, b \in 0..MaxCubes }

BagsInit ==
    /\ \E results \in SeqsUpTo(GrabResults, MaxGrabs) :
          game = [ id |-> 1, results |-> results ]
    /\ bag = <<>>
    /\ self_bag = <<>>
    /\ possible = FALSE
    /\ overflow = FALSE
    /\ AlmanacIdle
    /\ ExceptBagsIdle
    /\ pc = "game"

\* GameBag::minimum_for(&game)
MinimumForCall ==
    /\ pc = "game"
    /\ bag' = MinimumFor(game)
    /\ pc' = "minimum"
    /\ UNCHANGED <<tableVars, chainVars, inputVars, data_line, data_rule,
                   exceptBags, game, self_bag, possible>>

\* b.is_game_possible(&game)
IsGamePossibleCall(b) ==
    /\ pc = "minimum"
    /\ self_bag' = b
    /\ possible' = IsGamePossible(b, game)
    /\ pc' = "tested"
    /\ UNCHANGED <<tableVars, chainVars, inputVars, data_line, data_rule,
                   exceptBags, game, bag>>

BagsNext ==
    \/ MinimumForCall
    \/ \E b \in GameBags : IsGamePossibleCall(b)

SpecBags == BagsInit /\ [][BagsNext]_vars

----------------------------------------------------------------------------
(* Boat races (src/src/boat_races.rs): get_winning_hold_times and          *)
(* num_ways_to_beat_record on one record. The times and distances are far  *)
(* below 2^26, where every f64 operation of get_hold_times is exact but    *)
(* the square root; a hold time is kept as the exact real                  *)
(* (time + sign * sqrt(disc)) / 2 it stands for, or as NaN. The next f64   *)
(* to an integer is farther from it than the rounding of the root, so ceil *)
(* and floor are those of the real                                         *)

\* time is in 0..MaxTime
MaxTime == 7
\* distance is in 0..MaxDistance
MaxDistance == 13

RaceRecord(time, distance) == [ time |-> time, distance |-> distance ]

\* The f64 NaN: the square root of a negative number, and what is computed
\* from it.
NaN == [ nan |-> TRUE ]

\* The f64 (time + sign * sqrt(disc)) / 2, for disc >= 0.
HoldTime(time, disc, sign) ==
    [ nan |-> FALSE, time |-> time, disc |-> disc, sign |-> sign ]

\* a > b on f64, for the two hold times of one record: false with a NaN.
Greater(a, b) ==
    /\ ~a.nan
    /\ ~b.nan
    /\ a.disc > 0
    /\ a.sign > b.sign

\* RaceRecord::get_hold_times
GetHoldTimes(self) ==
    LET disc == self.time * self.time - 4 * self.distance
        a == IF disc < 0 THEN NaN ELSE HoldTime(self.time, disc, 1)
        b == IF disc < 0 THEN NaN ELSE HoldTime(self.time, disc, -1)
    IN  IF Greater(a, b) THEN <<b, a>> ELSE <<a, b>>

\* n >= sign * sqrt(disc), and n <= sign * sqrt(disc), for an integer n.
AtLeastRoot(n, x) ==
    IF x.sign = 1 THEN n >= 0 /\ n * n >= x.disc
    ELSE n >= 0 \/ n * n <= x.disc

AtMostRoot(n, x) ==
    IF x.sign = 1 THEN n <= 0 \/ n * n <= x.disc
    ELSE n <= 0 /\ n * n >= x.disc

\* x.ceil() as u64: the least integer at or above the hold time; 0 for NaN.
CeilAsU64(x) ==
    IF x.nan THEN 0
    ELSE CHOOSE h \in 0..x.time :
           /\ AtLeastRoot(2 * h - x.time, x)
           /\ \A k \in 0..(h - 1) : ~AtLeastRoot(2 * k - x.time, x)

\* x.floor() as u64: the greatest integer at or below the hold time; 0 for
\* NaN.
FloorAsU64(x) ==
    IF x.nan THEN 0
    ELSE CHOOSE h \in 0..x.time :
           /\ AtMostRoot(2 * h - x.time, x)
           /\ \A k \in (h + 1)..x.time : ~AtMostRoot(2 * k - x.time, x)

\* RaceRecord::distance_covered
DistanceCovered(self, hold_duration) ==
    (self.time - hold_duration) * hold_duration

\* RaceRecord::is_winner
IsWinner(self, hold_duration) ==
    DistanceCovered(self, hold_duration) > self.distance

\* RaceRecord::bump_to_winner
BumpToWinner(self, hold_duration) ==
    IF IsWinner(self, hold_duration) THEN hold_duration ELSE hold_duration + 1

\* RaceRecord::bump_to_loser
BumpToLoser(self, hold_duration) ==
    IF IsWinner(self, hold_duration) THEN hold_duration + 1 ELSE hold_duration

\* RaceRecord::get_winning_hold_times
GetWinningHoldTimes(self) ==
    LET hold_times == GetHoldTimes(self)
        hold1 == BumpToWinner(self, CeilAsU64(hold_times[1]))
        hold2 == BumpToLoser(self, FloorAsU64(hold_times[2]))
    IN  IF hold1 > hold2 THEN Range(hold2, hold1) ELSE Range(hold1, hold2)

\* RaceRecord::num_ways_to_beat_record
NumWaysToBeatRecord(self) ==
    LET winning_hold_times == GetWinningHoldTimes(self)
    IN  winning_hold_times.end - winning_hold_times.start

RacesInit ==
    /\ \E time \in 0..MaxTime, distance \in 0..MaxDistance :
          record = RaceRecord(time, distance)
    /\ winning = <<>>
    /\ ways = 0
    /\ overflow = FALSE
    /\ AlmanacIdle
    /\ ExceptRacesIdle
    /\ pc = "record"

\* record.get_winning_hold_times()
GetWinningHoldTimesCall ==
    /\ pc = "record"
    /\ winning' = GetWinningHoldTimes(record)
    /\ pc' = "ranged"
    /\ UNCHANGED <<tableVars, chainVars, inputVars, data_line, data_rule,
                   exceptRaces, record, ways>>

\* record.num_ways_to_beat_record()
NumWaysToBeatRecordCall ==
    /\ pc = "ranged"
    /\ ways' = NumWaysToBeatRecord(record)
    /\ pc' = "counted"
    /\ UNCHANGED <<tableVars, chainVars, inputVars, data_line, data_rule,
                   exceptRaces, record, winning>>

RacesNext ==
    \/ GetWinningHoldTimesCall
    \/ NumWaysToBeatRecordCall

SpecRaces == RacesInit /\ [][RacesNext]_vars

----------------------------------------------------------------------------
(* Vocabulary of the properties                                            *)

\* The values of a Range<usize>, and its length (Range::len: 0 when empty).
RangeValues(r) == { v \in r.start..(r.end - 1) : TRUE }

RangeLen(r) == IF r.end > r.start THEN r.end - r.start ELSE 0

RECURSIVE SumOfLengths(_)
SumOfLengths(rs) ==
    IF rs = <<>> THEN 0 ELSE RangeLen(Head(rs)) + SumOfLengths(Tail(rs))

Covered(rs) == UNION { RangeValues(rs[i]) : i \in 1..Len(rs) }

\* No value lies in the source interval of two rules of the table.
NonOverlapping(vals) ==
    \A i \in 1..Len(vals), j \in 1..Len(vals) :
        i # j => RangeValues(RangeIn(vals[i])) \cap RangeValues(RangeIn(vals[j])) = {}

\* No rule of the table covers v.
Uncovered(vals, v) ==
    \A i \in 1..Len(vals) : ~RangeContains(RangeIn(vals[i]), v)

\* The source values a call of the model can touch: interval bounds and rule
\* starts.
SourceValues == 0..(IF MaxPos >= MaxSrc THEN MaxPos ELSE MaxSrc)

\* The table maps no two source values to the same destination value.
Injective(vals) ==
    \A v \in SourceValues, w \in SourceValues :
        v # w => AlmanacMapMap(vals, v) # AlmanacMapMap(vals, w)

PairwiseDisjoint(rs) ==
    \A i \in 1..Len(rs), j \in 1..Len(rs) :
        i # j => RangeValues(rs[i]) \cap RangeValues(rs[j]) = {}

\* The rules of the list whose source interval contains v.
Covering(q, v) == { i \in 1..Len(q) : RangeContains(RangeIn(q[i]), v) }

Returned == pc = "done"

----------------------------------------------------------------------------
(* Properties of one table                                                 *)

\* C1. Interval coverage: the lengths of the intervals map_ranges(r) returns
\* add up to the length of r.
C1_IntervalCoverage ==
    Returned => SumOfLengths(result) = RangeLen(range)

\* C2. Exact cover: with pairwise non-overlapping source intervals, the values
\* covered by the intervals map_ranges(r) returns are exactly the images
\* map(v) of the values v of r.
C2_ExactCover ==
    (Returned /\ NonOverlapping(values)) =>
        Covered(result) = { AlmanacMapMap(values, v) : v \in RangeValues(range) }

\* C4. Value/interval agreement: map_ranges(v..v+1) yields exactly one
\* interval, and it starts at map(v). While the call runs the result vector
\* never holds a second interval, and what is returned is the one interval.
C4_ValueIntervalAgreement ==
    (pc \in {"loop", "done"} /\ range.end = range.start + 1) =>
        /\ Len(result) <= 1
        /\ Returned =>
              /\ Len(result) = 1
              /\ result[1].start = AlmanacMapMap(values, range.start)

\* C5, as stated. With pairwise non-overlapping source intervals, the
\* intervals map_ranges(r) returns are pairwise non-overlapping.
C5_OutputsDisjoint ==
    (Returned /\ NonOverlapping(values)) => PairwiseDisjoint(result)

\* C5, amended. With pairwise non-overlapping source intervals and a table
\* that maps no two source values to the same destination value, the
\* intervals map_ranges(r) returns are pairwise non-overlapping.
C5_OutputsDisjointWhenInjective ==
    (Returned /\ NonOverlapping(values) /\ Injective(values)) =>
        PairwiseDisjoint(result)

C5_Witness ==
    /\ Returned
    /\ NonOverlapping(values)
    /\ Injective(values)
    /\ Len(result) >= 2
    /\ \E i \in 1..Len(values) :
          /\ values[i].range_length > 0
          /\ values[i].destination_start # values[i].source_start

\* C6. Termination: the loop of map_ranges ends, with pos at range.end or
\* beyond. The body is a function of (values, range, pos) and never lowers
\* pos, so the loop ends exactly if every iteration that stays in the loop
\* moves pos.
C6_Termination ==
    [][(pc = "loop" /\ pc' = "loop") => pos' > pos]_vars

\* C7. Identity passthrough: a value that no rule of the table covers is
\* mapped to itself.
C7_IdentityPassthrough ==
    (pc = "mapped" /\ Uncovered(values, value)) => mapped = value

C7_Witness ==
    /\ pc = "mapped"
    /\ Uncovered(values, value)
    /\ mapped = value
    /\ \E i \in 1..Len(values) :
          /\ values[i].range_length > 0
          /\ values[i].destination_start # values[i].source_start
          /\ RangeIn(values[i]).end = value

\* C8, as stated. For every rule R of the table and every v in R's source
\* interval, map(v) - v = R.destination_start - R.source_start.
C8_OffsetPreservation ==
    pc = "mapped" =>
        \A i \in 1..Len(values) :
            RangeContains(RangeIn(values[i]), value) =>
                mapped - value = values[i].destination_start - values[i].source_start

\* C8, amended. The same, for tables whose source intervals are pairwise
\* non-overlapping.
C8_OffsetPreservationNonOverlapping ==
    (pc = "mapped" /\ NonOverlapping(values)) =>
        \A i \in 1..Len(values) :
            RangeContains(RangeIn(values[i]), value) =>
                mapped - value = values[i].destination_start - values[i].source_start

C8_Witness ==
    /\ pc = "mapped"
    /\ NonOverlapping(values)
    /\ Len(values) = 2
    /\ values[1].range_length > 0
    /\ RangeContains(RangeIn(values[2]), value)
    /\ value > values[2].source_start
    /\ mapped # value

\* C10. Empty-interval invariant: for an interval with start >= end,
\* map_ranges returns an empty sequence.
C10_EmptyInterval ==
    (Returned /\ range.start >= range.end) => result = <<>>

C10_Witness ==
    /\ Returned
    /\ range.start > range.end
    /\ result = <<>>
    /\ \E i \in 1..Len(values) : RangeContains(RangeIn(values[i]), range.end)

\* C11, as stated. Zero-rule table: for a table with no rules, map_ranges(r)
\* returns exactly one interval, equal to r, for every interval r.
C11_ZeroRuleTable ==
    (Returned /\ values = <<>>) => result = <<range>>

\* C11, amended. The same, for every non-empty interval r (start < end).
C11_ZeroRuleTableNonEmpty ==
    (Returned /\ values = <<>> /\ range.start < range.end) => result = <<range>>

C11_Witness ==
    /\ Returned
    /\ values = <<>>
    /\ range.start + 1 < range.end
    /\ result = <<range>>

\* C16. Single-stage scenario: for the table made from the rules (50, 98, 2)
\* and (52, 50, 48), the one table of SpecExample, map_ranges(96..103)
\* returns exactly 98..100, 50..52, 100..103 in this order, of total length 7.
C16_SingleStageScenario ==
    (Returned /\ range = Range(96, 103)) =>
        /\ result = << Range(98, 100), Range(50, 52), Range(100, 103) >>
        /\ SumOfLengths(result) = 7

C16_Witness ==
    /\ Returned
    /\ values = << RangeMap(52, 50, 48), RangeMap(50, 98, 2) >>
    /\ range = Range(96, 103)
    /\ Len(result) = 3

\* The non-empty interval r lies entirely in the source interval of the rule.
InsideRule(r, range_map) ==
    /\ r.start < r.end
    /\ RangeIn(range_map).start <= r.start
    /\ r.end <= RangeIn(range_map).end

\* r shifted by the offset of the rule.
Shifted(r, range_map) ==
    Range(r.start - range_map.source_start + range_map.destination_start,
          r.end - range_map.source_start + range_map.destination_start)

\* C17. Range inside one rule: with pairwise non-overlapping source
\* intervals, for a non-empty interval r entirely contained in the source
\* interval of a rule R, map_ranges(r) returns exactly one interval, r shifted
\* by R's offset. While the call runs the result vector never holds a second
\* interval.
C17_RangeInsideOneRule ==
    (pc \in {"loop", "done"} /\ NonOverlapping(values)) =>
        \A i \in 1..Len(values) :
            InsideRule(range, values[i]) =>
                /\ Len(result) <= 1
                /\ Returned => result = << Shifted(range, values[i]) >>

AllPositive(vals) == \A i \in 1..Len(vals) : vals[i].range_length > 0

\* The source sub-interval lies in the source interval of the rule, or is
\* empty.
SubIntervalInside(src, range_map) ==
    RangeValues(src) \subseteq RangeValues(RangeIn(range_map))

\* No value of the source sub-interval lies in the source interval of a rule.
SubIntervalOutside(src, vals) ==
    \A v \in RangeValues(src) : Uncovered(vals, v)

\* C18. Boundary-aligned splitting: for a table whose rules all have positive
\* length, every iteration of map_ranges that pushes an interval pushes the
\* image of the source sub-interval from pos to the new pos (to range.end,
\* when it breaks): the sub-interval lies entirely inside the source interval
\* of one rule and the pushed interval is it shifted by that rule's offset, or
\* it lies entirely outside every rule and is pushed unchanged.
C18_BoundaryAlignedSplitting ==
    [][ ( /\ pc = "loop"
          /\ AllPositive(values)
          /\ Len(result') = Len(result) + 1 )
        => LET src == Range(pos, IF pc' = "done" THEN range.end ELSE pos')
               pushed == result'[Len(result')]
           IN  \/ \E i \in 1..Len(values) :
                     /\ SubIntervalInside(src, values[i])
                     /\ pushed = Shifted(src, values[i])
               \/ /\ SubIntervalOutside(src, values)
                  /\ pushed = src
      ]_vars

C18_Witness ==
    /\ Returned
    /\ AllPositive(values)
    /\ Len(result) = 3
    /\ \E i \in 1..Len(values) :
          /\ values[i].destination_start # values[i].source_start
          /\ range.start < RangeIn(values[i]).start
          /\ RangeIn(values[i]).end < range.end
          /\ result[2] = Shifted(RangeIn(values[i]), values[i])

\* The tables a rule of length zero added to the rules of the table gives.
\* The table holds the rules in sorted order, and sorting them again with
\* the new rule given first or last gives the two places a stable sort can
\* put it among rules of equal source_start.
WithZeroLengthRule(vals) ==
    { AlmanacMapNew(<<RangeMap(d, s, 0)>> \o vals) : d \in 0..MaxDest, s \in 0..MaxSrc }
    \cup
    { AlmanacMapNew(Append(vals, RangeMap(d, s, 0))) : d \in 0..MaxDest, s \in 0..MaxSrc }

\* C19. Zero-length rules contribute nothing: a rule with range_length = 0
\* added to the table changes neither map(v), for any v, nor map_ranges(r).
C19_ZeroLengthRules ==
    Returned =>
        \A with_zero \in WithZeroLengthRule(values) :
            /\ \A v \in SourceValues : AlmanacMapMap(with_zero, v) = AlmanacMapMap(values, v)
            /\ MapRanges(with_zero, range) = result

\* The source sub-interval of the i-th interval of the vector returned for
\* r: the loop pushes one interval per iteration, from the value of pos
\* before it, as long as what it has moved pos by.
RECURSIVE SourcePieceStart(_, _, _)
SourcePieceStart(rs, r, i) ==
    IF i = 1 THEN r.start
    ELSE SourcePieceStart(rs, r, i - 1) + RangeLen(rs[i - 1])

SourcePiece(rs, r, i) ==
    Range(SourcePieceStart(rs, r, i), SourcePieceStart(rs, r, i) + RangeLen(rs[i]))

\* C25. Pointwise completeness even with overlapping rules: for a table of
\* rules of positive length and every v of a non-empty interval r, the piece
\* of map_ranges(r) whose source sub-interval contains v holds map(v), at the
\* place v has in the sub-interval.
C25_PointwiseCompleteness ==
    (Returned /\ AllPositive(values) /\ range.start < range.end) =>
        \A v \in RangeValues(range) :
            \E i \in 1..Len(result) :
                /\ RangeContains(SourcePiece(result, range, i), v)
                /\ RangeContains(result[i], AlmanacMapMap(values, v))
                /\ AlmanacMapMap(values, v) =
                       result[i].start + (v - SourcePiece(result, range, i).start)

C25_Witness ==
    /\ Returned
    /\ AllPositive(values)
    /\ ~NonOverlapping(values)
    /\ Len(result) >= 2
    /\ \E v \in RangeValues(range) :
          /\ Cardinality(Covering(values, v)) = 2
          /\ AlmanacMapMap(values, v) # v
          /\ RangeContains(result[2], AlmanacMapMap(values, v))

\* What C26 says of one iteration of the loop that pushes an interval, on a
\* table of rules of positive length with pairwise non-overlapping source
\* intervals: the interval pushed is not empty, the vector holds at most
\* 2n+1 intervals for the n rules, and the cursor has moved as `moved` says.
ProgressAndSize(moved) ==
    ( /\ pc = "loop"
      /\ AllPositive(values)
      /\ NonOverlapping(values)
      /\ Len(result') = Len(result) + 1 )
    => /\ moved
       /\ RangeLen(result'[Len(result')]) > 0
       /\ Len(result') <= 2 * Len(values) + 1

\* C26, as stated. Progress and size bound: every iteration of map_ranges
\* strictly increases the cursor pos, every interval emitted is non-empty and
\* at most 2n+1 intervals are emitted.
C26_ProgressAndSizeBound ==
    [][ ProgressAndSize(pos' > pos) ]_vars

\* C26, amended. The same, with the cursor strictly increased by every
\* iteration but the one that finds no rule, which pushes pos..range.end and
\* ends the loop with pos as it was.
C26_ProgressUnlessBreak ==
    [][ ProgressAndSize(pos' > pos \/ (pc' = "done" /\ pos' = pos)) ]_vars

C26_Witness ==
    /\ Returned
    /\ AllPositive(values)
    /\ NonOverlapping(values)
    /\ Len(values) >= 1
    /\ Len(result) = 2 * Len(values) + 1
    /\ pos < range.end

\* The step-by-step loop and the function MapRanges give the same vector.
MapRangesAgrees ==
    Returned => result = MapRanges(values, range)

----------------------------------------------------------------------------
(* Properties of the chain                                                 *)

StageMaps(a) ==
    << a.seed_to_soil_map, a.soil_to_fertilizer_map, a.fertilizer_to_water_map,
       a.water_to_light_map, a.light_to_temperature_map,
       a.temperature_to_humidity_map, a.humidity_to_location_map >>

\* The tables of a sequence applied to v one after the other, first to last.
RECURSIVE ApplyInOrder(_, _)
ApplyInOrder(maps, v) ==
    IF maps = <<>> THEN v
    ELSE ApplyInOrder(Tail(maps), AlmanacMapMap(Head(maps), v))

\* iter_all_seeds: every value of every seed range.
AllSeeds(a) == UNION { RangeValues(a.seed_ranges[i]) : i \in 1..Len(a.seed_ranges) }

\* iter_all_seed_locations().min(), for a non-empty set of seeds.
BruteForceLowest(a) ==
    CHOOSE m \in { SeedToLocation(a, s) : s \in AllSeeds(a) } :
        \A s \in AllSeeds(a) : m <= SeedToLocation(a, s)

AllNonOverlapping(a) ==
    \A k \in 1..7 : NonOverlapping(StageMaps(a)[k])

\* C3. Range-mode answer equals brute force: with non-overlapping tables and
\* a non-empty seed range, solve returns as part 2 the minimum of
\* seed_to_location over all seeds of all seed ranges.
C3_RangeModeEqualsBruteForce ==
    (pc = "solved" /\ AllNonOverlapping(almanac) /\ AllSeeds(almanac) # {}) =>
        /\ solution.tag = "Ok"
        /\ solution.part2 = BruteForceLowest(almanac)

\* C15. Empty-result error: solve returns NoSeeds exactly if the parsed
\* list of seed values is empty, and for every parsed almanac with at least
\* one seed value it returns both the part-1 and the part-2 result.
C15_EmptyResultError ==
    pc = "solved" =>
        /\ (solution.tag = "Err" /\ solution.error = "NoSeeds")
               <=> almanac.seeds = <<>>
        /\ almanac.seeds # <<>> => solution.tag = "Ok"

\* One stage of the chain on a vector of intervals: map_ranges of the table
\* on each interval, the results put one after the other.
RECURSIVE FanOutStage(_, _)
FanOutStage(vals, rs) ==
    IF rs = <<>> THEN <<>>
    ELSE MapRanges(vals, Head(rs)) \o FanOutStage(vals, Tail(rs))

\* The tables of a sequence applied stage after stage, first to last.
RECURSIVE FanOut(_, _)
FanOut(maps, rs) ==
    IF maps = <<>> THEN rs
    ELSE FanOut(Tail(maps), FanOutStage(Head(maps), rs))

\* C22. Chain fan-out: seed_range_to_location_ranges(r) is the seven tables
\* applied in the fixed order, each stage applying map_ranges to every
\* interval of the stage before and concatenating the results in order.
C22_ChainFanOut ==
    pc = "fanned_out" => result = FanOut(StageMaps(almanac), <<range>>)

C22_Witness ==
    /\ pc = "fanned_out"
    /\ Len(result) >= 3
    /\ \E j \in 1..7, k \in 1..7 :
          /\ j < k
          /\ StageMaps(almanac)[j] # <<>>
          /\ StageMaps(almanac)[k] # <<>>
          /\ StageMaps(almanac)[j] # StageMaps(almanac)[k]
          /\ Len(MapRanges(StageMaps(almanac)[j], range)) >= 2
          /\ result # MapRanges(StageMaps(almanac)[j], range)

\* C9. Chain composition: seed_to_location(v) is the seven stage maps
\* applied to v in the fixed order, each once.
C9_ChainComposition ==
    pc = "located" => location = ApplyInOrder(StageMaps(almanac), seed)

C9_Witness ==
    /\ pc = "located"
    /\ location = ApplyInOrder(StageMaps(almanac), seed)
    /\ location # seed
    /\ \E j \in 1..7, k \in 1..7 :
          /\ j < k
          /\ StageMaps(almanac)[j] # <<>>
          /\ StageMaps(almanac)[k] # <<>>
          /\ StageMaps(almanac)[j] # StageMaps(almanac)[k]
          /\ AlmanacMapMap(StageMaps(almanac)[j], seed) # seed
          /\ location # AlmanacMapMap(StageMaps(almanac)[j], seed)

----------------------------------------------------------------------------
(* Properties of the width of usize                                        *)

\* C12. Mapping functions never fail: for every rule with fields of the
\* width of usize and every value, RangeMap::map and RangeMap::range_in
\* complete without an addition that overflows and without a panic.
C12_MappingNeverFails ==
    /\ ~overflow
    /\ pc # "panicked"

----------------------------------------------------------------------------
(* Properties of parsing                                                   *)

IsNumeral(token) == \E n \in 1..Len(NumeralTokens) : NumeralTokens[n] = token

NumberOf(token) == (CHOOSE n \in 1..Len(NumeralTokens) : NumeralTokens[n] = token) - 1

\* The text begins with a seed line of numbers.
SeedLineOfNumbers(s) ==
    /\ s # <<>>
    /\ s[1] # <<>>
    /\ s[1][1] = "seeds:"
    /\ \A i \in 2..Len(s[1]) : IsNumeral(s[1][i])

\* The numbers of the seed line.
SeedNumbers(s) == [ i \in 1..(Len(s[1]) - 1) |-> NumberOf(s[1][i + 1]) ]

\* The first empty line of the text from line q on, or the line after the
\* last.
RECURSIVE FirstBlankFrom(_, _)
FirstBlankFrom(s, q) ==
    IF q > Len(s) THEN q
    ELSE IF s[q] = <<>> THEN q
    ELSE FirstBlankFrom(s, q + 1)

\* The line where the header of stage k is expected: the third line, and
\* then the line after the empty line that ends the block before.
RECURSIVE HeaderPos(_, _)
HeaderPos(s, k) ==
    IF k = 1 THEN 3 ELSE FirstBlankFrom(s, HeaderPos(s, k - 1) + 1) + 1

HeaderPresent(s, k) ==
    /\ HeaderPos(s, k) <= Len(s)
    /\ s[HeaderPos(s, k)] = << StagePrefixes[k], "map:" >>

\* The header of stage k is in its place and every line of the block is
\* three numbers.
BlockWellFormed(s, k) ==
    /\ HeaderPresent(s, k)
    /\ \A q \in (HeaderPos(s, k) + 1)..(FirstBlankFrom(s, HeaderPos(s, k) + 1) - 1) :
          /\ Len(s[q]) = 3
          /\ \A i \in 1..3 : IsNumeral(s[q][i])

\* What C13 says of a text: it parses only with the seven headers in their
\* places, and the first stage whose header is not in its place, after
\* well-formed blocks, is the one MissingHeaderLine names.
StageOrder(s, r) ==
    /\ r.tag = "Ok" => \A k \in 1..Len(StagePrefixes) : HeaderPresent(s, k)
    /\ \A k \in 1..Len(StagePrefixes) :
          ( /\ \A j \in 1..(k - 1) : BlockWellFormed(s, j)
            /\ ~HeaderPresent(s, k) )
          => r = ParseErr("MissingHeaderLine", <<StagePrefixes[k]>>)

\* C13, as stated. Stage order is fixed and total: for a text with a seed
\* line of an even number of numbers, from_str succeeds only if the seven
\* headers appear in the fixed order, and if the k-th expected header is
\* absent, misnamed or out of order it returns MissingHeaderLine(k-th stage).
C13_StageOrder ==
    ( /\ pc = "returned"
      /\ SeedLineOfNumbers(input)
      /\ Len(SeedNumbers(input)) % 2 = 0 )
    => StageOrder(input, parsed)

\* C13, amended. The same, for a text whose seed line is followed by an
\* empty line; for a text whose seed line is not, from_str returns
\* MissingSeedToSoilMap.
C13_StageOrderAfterBlankLine ==
    ( /\ pc = "returned"
      /\ SeedLineOfNumbers(input)
      /\ Len(SeedNumbers(input)) % 2 = 0 )
    => IF Len(input) >= 2 /\ input[2] = <<>>
       THEN StageOrder(input, parsed)
       ELSE parsed = ParseErr("MissingSeedToSoilMap", <<>>)

C13_Witness ==
    /\ pc = "returned"
    /\ SeedLineOfNumbers(input)
    /\ Len(SeedNumbers(input)) % 2 = 0
    /\ Len(input) >= 2
    /\ input[2] = <<>>
    /\ \E k \in 2..(Len(StagePrefixes) - 1) :
          /\ \A j \in 1..(k - 1) : BlockWellFormed(input, j)
          /\ HeaderPos(input, k) <= Len(input)
          /\ input[HeaderPos(input, k)] = << StagePrefixes[k + 1], "map:" >>
          /\ parsed = ParseErr("MissingHeaderLine", <<StagePrefixes[k]>>)

\* The header of stage k is in its place and the next line is empty or the
\* text ends with the header.
BlockWithoutData(s, k) ==
    /\ HeaderPresent(s, k)
    /\ \/ HeaderPos(s, k) = Len(s)
       \/ s[HeaderPos(s, k) + 1] = <<>>

\* C24. Every stage block holds one or more data lines: from_str rejects
\* with a parse error a text in which a stage header is followed at once by
\* an empty line or by the end of the text.
C24_StageNeedsDataLine ==
    ( /\ pc = "returned"
      /\ \E k \in 1..Len(StagePrefixes) : BlockWithoutData(input, k) )
    => parsed.tag = "Err"

\* C14. Seed-range derivation: a seed line with an odd number of values fails
\* with InsufficientSeedNumbers; in the Almanac parsed from a seed line with
\* an even number of values, seeds is the list of the values unchanged and
\* seed_ranges holds, in order, [s, s + len) for each pair (s, len).
C14_SeedRangeDerivation ==
    (pc = "returned" /\ SeedLineOfNumbers(input)) =>
        LET numbers == SeedNumbers(input)
        IN  /\ Len(numbers) % 2 = 1 =>
                  parsed = ParseErr("InsufficientSeedNumbers", <<>>)
            /\ parsed.tag = "Ok" =>
                  /\ Len(numbers) % 2 = 0
                  /\ parsed.value.seeds = numbers
                  /\ Len(parsed.value.seed_ranges) = Len(numbers) \div 2
                  /\ \A i \in 1..(Len(numbers) \div 2) :
                        parsed.value.seed_ranges[i] =
                            Range(numbers[2 * i - 1],
                                  numbers[2 * i - 1] + numbers[2 * i])

C14_Witness ==
    /\ pc = "returned"
    /\ parsed.tag = "Ok"
    /\ Len(parsed.value.seeds) = 4
    /\ parsed.value.seed_ranges = << Range(2, 3), Range(1, 3) >>

----------------------------------------------------------------------------
(* Properties of the constructor                                           *)

SortedBySourceStart(vals) ==
    \A i \in 1..Len(vals), j \in 1..Len(vals) :
        i < j => vals[i].source_start <= vals[j].source_start

\* The sequences that hold the elements of q in another order.
Permutations(q) ==
    { [ i \in 1..Len(q) |-> q[p[i]] ] :
        p \in { f \in [1..Len(q) -> 1..Len(q)] :
                  \A i \in 1..Len(q), j \in 1..Len(q) : i # j => f[i] # f[j] } }

\* C20. Rule order independence: AlmanacMap::new stores a permutation of the
\* given rules sorted ascending by source_start, and for rules of positive
\* length with pairwise non-overlapping source intervals map(v) and
\* map_ranges(r) are the same for every order the rules are given in.
C20_RuleOrderIndependence ==
    pc = "constructed" =>
        /\ SortedBySourceStart(values)
        /\ values \in Permutations(given)
        /\ (AllPositive(given) /\ NonOverlapping(given)) =>
              \A q \in Permutations(given) :
                  /\ \A v \in SourceValues :
                        AlmanacMapMap(AlmanacMapNew(q), v) = AlmanacMapMap(values, v)
                  /\ \A r \in Ranges :
                        MapRanges(AlmanacMapNew(q), r) = MapRanges(values, r)

C20_Witness ==
    /\ pc = "constructed"
    /\ Len(given) = 2
    /\ AllPositive(given)
    /\ NonOverlapping(given)
    /\ given[1].source_start > given[2].source_start
    /\ values = << given[2], given[1] >>
    /\ given[1].destination_start # given[1].source_start

\* The covering rule with the smallest source_start and, among those of
\* equal source_start, the one given earliest.
FirstCovering(q, v) ==
    CHOOSE i \in Covering(q, v) :
        \A j \in Covering(q, v) :
            \/ q[i].source_start < q[j].source_start
            \/ q[i].source_start = q[j].source_start /\ i <= j

\* C21. First-match-wins on overlap: when the source intervals of several
\* of the rules given contain v, map(v) is the mapping of the covering rule
\* with the smallest source_start (the one given earliest among equal
\* source_start), whatever the order of the rules in the input.
C21_FirstMatchWins ==
    (pc = "looked_up" /\ Covering(given, value) # {}) =>
        LET first == given[FirstCovering(given, value)]
        IN  mapped = first.destination_start + (value - first.source_start)

C21_Witness ==
    /\ pc = "looked_up"
    /\ Len(given) = 2
    /\ Covering(given, value) = {1, 2}
    /\ given[1].source_start > given[2].source_start
    /\ given[1].destination_start - given[1].source_start
         # given[2].destination_start - given[2].source_start
    /\ mapped = given[2].destination_start + (value - given[2].source_start)

----------------------------------------------------------------------------
(* Properties of one data line                                             *)

\* The places of the tokens of the line that are not numbers.
NotNumbers(l) == { i \in 1..Len(l) : ~IsNumeral(l[i]) }

\* C23. Data-line parsing: RangeMap::from_str on a line of exactly three
\* numbers yields (destination_start, source_start, range_length) in that
\* order; a line with a token that is not a number fails with
\* InvalidValueInRange(first such token), whatever the number of tokens; a
\* line of numbers only, not three of them, fails with InvalidRange(line);
\* and Almanac::from_str on a text with such a line in a block (a non-empty
\* line: the empty line ends the block) fails with the error of the line.
C23_DataLineParsing ==
    pc \in {"text", "returned"} =>
        /\ (Len(data_line) = 3 /\ NotNumbers(data_line) = {}) =>
              data_rule = ParseOk([ destination_start |-> NumberOf(data_line[1]),
                                    source_start |-> NumberOf(data_line[2]),
                                    range_length |-> NumberOf(data_line[3]) ])
        /\ NotNumbers(data_line) # {} =>
              LET first == CHOOSE i \in NotNumbers(data_line) :
                               \A j \in NotNumbers(data_line) : i <= j
              IN  data_rule = ParseErr("InvalidValueInRange", <<data_line[first]>>)
        /\ (Len(data_line) # 3 /\ NotNumbers(data_line) = {}) =>
              data_rule = ParseErr("InvalidRange", data_line)
        /\ (pc = "returned" /\ data_line # <<>> /\ data_rule.tag = "Err") =>
              parsed = data_rule

C23_Witness ==
    /\ pc = "returned"
    /\ Len(data_line) = 4
    /\ IsNumeral(data_line[1])
    /\ ~IsNumeral(data_line[2])
    /\ ~IsNumeral(data_line[3])
    /\ data_line[2] # data_line[3]
    /\ parsed = ParseErr("InvalidValueInRange", <<data_line[2]>>)
    /\ input[Len(input)] = data_line

----------------------------------------------------------------------------
(* Properties of the scratch cards                                         *)

\* The value instances() returns for the card of index i.
InstancesOf(i) == Instances(card_set.cards[i + 1]).sum

\* The earlier cards whose matches reach the card of index i.
Reaching(i) ==
    { j \in 0..(i - 1) : i <= j + TotalMatches(card_set.cards[j + 1]) }

RECURSIVE SumOfInstances(_)
SumOfInstances(J) ==
    IF J = {} THEN 0
    ELSE LET j == CHOOSE x \in J : TRUE
         IN  InstancesOf(j) + SumOfInstances(J \ {j})

\* The card of index i has its final number of instances.
Propagated(i) == InstancesOf(i) = 1 + SumOfInstances(Reaching(i))

\* C27. Scratch-card copy propagation: after CardSet::new, every card of
\* index i has instances(i) = 1 + the sum of instances(j) over the earlier
\* cards j < i with i <= j + total_matches(j); the set keeps the cards it
\* was given and no more; inside resolve, the card about to propagate and
\* every card before it already have their final instances; and
\* total_instances() is the sum of the instances of all the cards.
C27_CopyPropagation ==
    /\ pc \in {"resolving", "resolved", "totalled"} =>
          Len(card_set.cards) = Len(cards)
    /\ pc = "resolving" =>
          \A i \in 0..(Len(cards) - 1) : i <= card_index => Propagated(i)
    /\ pc \in {"resolved", "totalled"} =>
          /\ card_set.resolved
          /\ \A i \in 0..(Len(cards) - 1) : Propagated(i)
    /\ pc = "totalled" =>
          total = SumOfInstances(0..(Len(cards) - 1))

\* While no addition has left the width of u32, the propagation is as the
\* formula above says.
CopyPropagationWithinWidth ==
    (/\ ~overflow
     /\ pc # "cards"
     /\ \A k \in 1..Len(card_set.cards) : ~Instances(card_set.cards[k]).overflow)
        => C27_CopyPropagation

----------------------------------------------------------------------------
(* Properties of the camel cards                                           *)

\* The place of a hand type in the order of HandType.
HandTypeRank(t) == CHOOSE i \in DOMAIN HandTypes : HandTypes[i] = t

\* The hands obtained from cs by replacing each joker, independently, with a
\* card that is not the joker.
RECURSIVE Replacements(_)
Replacements(cs) ==
    IF cs = <<>> THEN { <<>> }
    ELSE { <<c>> \o rest :
             c \in (IF Head(cs) = "Joker" THEN CamelCards \ { "Joker" }
                    ELSE { Head(cs) }),
             rest \in Replacements(Tail(cs)) }

\* The ranks of the types of the replacements, by counting alone: the type
\* of five cards without joker is HighCard with five kinds, OnePair with
\* four, TwoPair or ThreeOfAKind with three (most of a kind 2 or 3),
\* FullHouse or FourOfAKind with two (most of a kind 3 or 4), FiveOfAKind
\* with one.
TypeByCounting(h) ==
    LET kinds == Cardinality({ h[i] : i \in DOMAIN h })
        most == CHOOSE m \in 1..Len(h) :
                    /\ \E c \in CamelCards :
                          Cardinality({ i \in DOMAIN h : h[i] = c }) = m
                    /\ \A c \in CamelCards :
                          Cardinality({ i \in DOMAIN h : h[i] = c }) <= m
    IN  CASE kinds = 5 -> "HighCard"
          [] kinds = 4 -> "OnePair"
          [] kinds = 3 /\ most = 2 -> "TwoPair"
          [] kinds = 3 /\ most = 3 -> "ThreeOfAKind"
          [] kinds = 2 /\ most = 3 -> "FullHouse"
          [] kinds = 2 /\ most = 4 -> "FourOfAKind"
          [] kinds = 1 -> "FiveOfAKind"

\* The rank of the strongest type among the replacements of cs.
StrongestRank(cs) ==
    LET ranks == { HandTypeRank(TypeByCounting(h)) : h \in Replacements(cs) }
    IN  CHOOSE r \in ranks : \A q \in ranks : q <= r

\* cs with every jack replaced by the joker.
JacksAsJokers(cs) ==
    [ i \in DOMAIN cs |-> IF cs[i] = "Jack" THEN "Joker" ELSE cs[i] ]

\* C28. Jokers-wild hand type: for every hand of five cards, after
\* Hand::jokers_wild the cards are those of the hand with every Jack
\* replaced by Joker, the hand_type is the strongest HandType obtainable by
\* replacing each Joker independently with a card that is not the joker, it
\* is never weaker than the type of the hand without wild jokers, and
\* get_hand_type_jokers_wild reaches none of its unreachable!() arms.
C28_JokersWildStrongest ==
    /\ pc # "panicked"
    /\ pc \in { "wild", "wild_again" } =>
          /\ wild.jokers_wild
          /\ wild.bid = hand.value.bid
          /\ wild.cards = JacksAsJokers(hand.value.cards)
          /\ wild.hand_type \in { HandTypes[i] : i \in DOMAIN HandTypes }
          /\ HandTypeRank(wild.hand_type) = StrongestRank(wild.cards)
          /\ HandTypeRank(wild.hand_type) >= HandTypeRank(hand.value.hand_type)

\* QQQJA of the example: three of a kind, four of a kind with the jack wild.
C28_Witness ==
    /\ pc = "wild"
    /\ hand.value.cards = << "Two", "Two", "Jack", "Two", "Three" >>
    /\ hand.value.hand_type = "ThreeOfAKind"
    /\ wild.cards = << "Two", "Two", "Joker", "Two", "Three" >>
    /\ wild.hand_type = "FourOfAKind"

----------------------------------------------------------------------------
(* Properties of the snow island                                           *)

\* Bag a has at least the cubes of bag b, colour by colour.
AtLeast(a, b) == a.red >= b.red /\ a.green >= b.green /\ a.blue >= b.blue

\* C29. Minimum bag: GameBag::minimum_for(game) is the componentwise-least
\* bag for which the game is possible: the game is possible for it, and
\* every bag for which is_game_possible holds has red, green and blue each
\* at least those of minimum_for(game).
C29_MinimumBag ==
    /\ pc \in { "minimum", "tested" } => IsGamePossible(bag, game)
    /\ (pc = "tested" /\ self_bag = bag) => possible
    /\ (pc = "tested" /\ possible) => AtLeast(self_bag, bag)

\* A game of two grabs, neither of which alone gives the minimum, and a
\* bag that is possible without being the minimum.
C29_Witness ==
    /\ pc = "tested"
    /\ Len(game.results) = 2
    /\ bag # GameBagEmpty
    /\ \A k \in 1..2 : bag # IntoBagOfResult(bag, game.results[k])
    /\ possible
    /\ self_bag # bag

----------------------------------------------------------------------------
(* Properties of the boat races                                            *)

\* The hold durations that beat the record, by trying every one.
Winners(r) == { h \in 0..r.time : (r.time - h) * h > r.distance }

\* C30. Race-record count equals brute force: for every RaceRecord
\* (time, distance), get_winning_hold_times() is exactly the half-open range
\* of the hold durations h in 0..=time with (time - h) * h > distance, and
\* num_ways_to_beat_record() is the number of such h: 0 when no hold
\* duration beats the record.
C30_CountEqualsBruteForce ==
    /\ pc \in { "ranged", "counted" } => RangeValues(winning) = Winners(record)
    /\ pc = "counted" => ways = Cardinality(Winners(record))

\* Where the square of the time is more than four times the distance, the
\* range and the count are those of brute force.
CountWithPositiveDiscriminant ==
    record.time * record.time > 4 * record.distance => C30_CountEqualsBruteForce

====
